---------------------------- MODULE Spec2Model ----------------------------
(***************************************************************************)
(* Detection-and-routing pipelines of DSA-X GODMODE++.                     *)
(*                                                                         *)
(*   DSAGodMode                      src/dsa_godmode.py                    *)
(*   QuestionRouter                  src/question_router.py                *)
(*   ScreenAnalyzer / VoiceListener  src/screen_analyzer.py,               *)
(*                                   src/voice_listener.py                 *)
(*   RealTimeIntelligence            src/ai/real_time_intelligence.py      *)
(*   RealTimeIntelligenceController  src/intelligence/real_time_controller.py *)
(*                                                                         *)
(* The three orchestrators are separate programs.  The variable `program`  *)
(* records which one has been constructed; every action belongs to one of  *)
(* them and leaves the state of the others alone.                          *)
(***************************************************************************)
EXTENDS Integers, Sequences, FiniteSets, TLC

VARIABLES
    program,              \* which orchestrator class has been instantiated
    \* ---- DSAGodMode ----------------------------------------------------
    config_max_queue_size,\* config['question_processing']['max_queue_size']
    running,              \* DSAGodMode.running
    question_queue,       \* question_queue.queue : the heap list of the PriorityQueue
    unfinished_tasks,     \* question_queue.unfinished_tasks
    processed_questions,  \* DSAGodMode.processed_questions
    stats,                \* DSAGodMode.stats
    callbacks,            \* on_question_detected / on_solution_ready / on_error
    threads,              \* DSAGodMode.threads : position of every QuestionProcessor thread
    analyzers,            \* ScreenAnalyzer / VoiceListener : running flag and last text
    calls,                \* history: number of _on_text_detected calls so far
    lastDispatch,         \* history: the entry last handed to _solve_question and what it emitted
    dqAfterStop,          \* history: per thread, dequeues since running was cleared
                          \* (0 again once the thread has ended)
    \* ---- RealTimeIntelligence ------------------------------------------
    rti_now,              \* the value time.time() returns, in seconds
    recent_questions,     \* RealTimeIntelligence.recent_questions : hash -> time
    processing_queue,     \* RealTimeIntelligence.processing_queue
    results_queue,        \* RealTimeIntelligence.results_queue
    questions_processed,  \* RealTimeIntelligence.questions_processed
    rti_calls,            \* history: number of _should_process_question calls so far
    lastShould,           \* history: the last _should_process_question call and its result
    lastAccepted,         \* history: hash -> time of the last call answered True
    \* ---- RealTimeIntelligenceController --------------------------------
    is_running,           \* RealTimeIntelligenceController.is_running
    ctl_question_queue,   \* RealTimeIntelligenceController.question_queue
    solution_queue,       \* RealTimeIntelligenceController.solution_queue
    ctl_processed_questions, \* RealTimeIntelligenceController.processed_questions
    ctl_stats,            \* RealTimeIntelligenceController.stats
    ctl_callbacks,        \* question_detected_callback / solution_ready_callback
    ctl_threads,          \* position of controller_thread and of solver_thread
    ctl_main,             \* position of the caller of start_intelligence / stop_intelligence
    ctl_detections,       \* history: number of _process_detected_question calls so far
    lastSolve,            \* history: the question last dequeued by _solver_loop and how its solve ended
    ctl_dqAfterStop,      \* history: dequeues by _solver_loop since is_running was cleared
                          \* (0 again once the thread has ended)
    \* ---- calls in progress ---------------------------------------------
    producer,             \* per capture thread: the _on_text_detected call that has read
                          \* question_queue.full() and has not yet returned from put()
    call,                 \* the last call of a pure function: its name, arguments and result
    \* ---- wall clock of the controller run --------------------------------
    ctl_now,              \* the time, in seconds, at which the controller thread runs
    ctl_accepted,         \* history: hash -> time at which _process_detected_question
                          \* last put a question of that hash on question_queue
    \* ---- the list the controller thread is iterating ---------------------
    ctl_batch,            \* the source whose get_detected_questions was called last in
                          \* this iteration of _intelligence_loop, the questions of its
                          \* list not yet handled, and whether the first of them is
                          \* inside _process_detected_question past question_queue.put
    ctl_abandoned,        \* history: questions of a drained list that were never passed
                          \* to _process_detected_question
    ctl_order,            \* history, per source: how many questions the source has
                          \* reported, and the report numbers of its questions put on
                          \* question_queue, in the order of the puts
    \* ---- activation and configuration of RealTimeIntelligence ------------
    rti_control,          \* is_active, auto_solve and the number of intelligence
                          \* threads started and not yet ended
    \* ---- the text monitors ------------------------------------------------
    ocr,                  \* OCRFallback: is_running, seen_hashes, the regions'
                          \* last_hash, text_queue, and (history) the texts emitted
                          \* since monitoring started, with their regions
    analyzer,             \* intelligence ScreenAnalyzer: is_running,
                          \* last_detected_hash, question_queue, and (history) the
                          \* questions of the previous scan and the number of scans
    clipboard             \* ClipboardMonitor: is_running, last_content, text_queue,
                          \* and seen_hashes with (history) the order of its members

godVars == <<config_max_queue_size, running, question_queue, unfinished_tasks,
             processed_questions, stats, callbacks, threads, analyzers,
             calls, lastDispatch, dqAfterStop>>

rtiVars == <<rti_now, recent_questions, processing_queue, results_queue,
             questions_processed, rti_calls, lastShould, lastAccepted>>

ctlVars == <<is_running, ctl_question_queue, solution_queue, ctl_processed_questions,
             ctl_stats, ctl_callbacks, ctl_threads, ctl_main, ctl_detections,
             lastSolve, ctl_dqAfterStop>>

monitorVars == <<ocr, analyzer, clipboard>>

histVars == <<ctl_now, ctl_accepted, ctl_batch, ctl_abandoned, ctl_order, rti_control,
              monitorVars>>

callVars == <<producer, call, histVars>>

vars == <<program, godVars, rtiVars, ctlVars, callVars>>

-----------------------------------------------------------------------------
(* Bounds of the model *)

MaxDetections == 3      \* _on_text_detected calls explored
MaxThreads == 2         \* start() calls explored (one dispatch thread each)

-----------------------------------------------------------------------------
(* QuestionRouter *)

\* Sample captures.  The scores are the ones classify_question computes for
\*   palindrome "Find the longest palindrome substring using recursion and
\*               sorting"
\*   btree      "What is a B-tree index and how does a sql database join
\*               query use it"
\*   heaptable  "Explain the heap table of a sql database and the way a
\*               transaction uses an index"
Texts == {"palindrome", "btree", "heaptable"}

\* Captures too short for one source or for both:
\*   ok          "ok"
\*   findheap    "find heap"
\*   findmaxheap "find the max heap"
ShortTexts == {"ok", "findheap", "findmaxheap"}

\* len(text)
text_len(text) ==
    CASE text = "palindrome"  -> 65
      [] text = "btree"       -> 68
      [] text = "heaptable"   -> 80
      [] text = "ok"          -> 2
      [] text = "findheap"    -> 9
      [] text = "findmaxheap" -> 17

Sources == {"screen", "voice"}

QuestionTypes == <<"dsa", "dbms", "oop", "system_design">>

\* Twice the score of a text per question type (keyword hits count 0.5).
Score2(text) ==
    CASE text = "palindrome" -> [dsa |-> 9, dbms |-> 0,  oop |-> 0, system_design |-> 0]
      [] text = "btree"      -> [dsa |-> 3, dbms |-> 11, oop |-> 0, system_design |-> 0]
      [] text = "heaptable"  -> [dsa |-> 2, dbms |-> 10, oop |-> 0, system_design |-> 0]
      [] text = "ok"         -> [dsa |-> 0, dbms |-> 0,  oop |-> 0, system_design |-> 0]
      [] text \in {"findheap", "findmaxheap"}
                             -> [dsa |-> 4, dbms |-> 0,  oop |-> 0, system_design |-> 0]

\* len(dsa_patterns) + len(dbms_patterns) + len(oop_patterns) + len(system_design_patterns)
total_patterns == 44

\* max(scores.keys(), key=...) : the first key, in insertion order, of maximal score
BestType(sc) ==
    LET better(i) == \A j \in 1..Len(QuestionTypes) :
                        \/ sc[QuestionTypes[j]] < sc[QuestionTypes[i]]
                        \/ (sc[QuestionTypes[j]] = sc[QuestionTypes[i]] /\ i <= j)
    IN  QuestionTypes[CHOOSE i \in 1..Len(QuestionTypes) : better(i)]

\* classify_question: the type and the confidence, the latter as the
\* numerator of a fraction over 2 * total_patterns.
classify_scores(sc) ==
    LET best == BestType(sc)
        conf == IF sc[best] > 2 * total_patterns THEN 2 * total_patterns ELSE sc[best]
    IN  IF conf * 10 < 2 * total_patterns
        THEN [question_type |-> "unknown", conf88 |-> conf]
        ELSE [question_type |-> best, conf88 |-> conf]

\* classify_question: a text of fewer than 10 characters is UNKNOWN with
\* confidence 0 (the sample texts have no surrounding whitespace to strip).
classify_question(text) ==
    IF text_len(text) < 10 THEN [question_type |-> "unknown", conf88 |-> 0]
    ELSE classify_scores(Score2(text))

solver_mapping(qt) ==
    CASE qt \in {"dsa", "algorithm", "data_structure"} -> "dsa_solver"
      [] qt \in {"dbms", "oop", "system_design", "hld", "lld", "theoretical"} -> "theoretical_solver"
      [] OTHER -> "general_solver"

route_question(text, source, t) ==
    LET c == classify_question(text)
    IN  [text |-> text, source |-> source, question_type |-> c.question_type,
         conf88 |-> c.conf88, solver_type |-> solver_mapping(c.question_type),
         timestamp |-> t]

type_priorities(qt) ==
    CASE qt = "dsa" -> 10
      [] qt = "algorithm" -> 9
      [] qt = "data_structure" -> 8
      [] qt = "system_design" -> 7
      [] qt = "dbms" -> 6
      [] qt = "oop" -> 5
      [] qt = "theoretical" -> 4
      [] OTHER -> 1

\* Sensitivity variant of get_solver_priority: the bonus given to the label
\* "audio" instead of "voice".
get_solver_priority_audio(ri) ==
    type_priorities(ri.question_type)
      + ((ri.conf88 * 10) \div (2 * total_patterns))
      + (IF ri.source = "audio" THEN 5 ELSE 0)

get_solver_priority(ri) ==
    type_priorities(ri.question_type)
      + ((ri.conf88 * 10) \div (2 * total_patterns))
      + (IF ri.source = "voice" THEN 5 ELSE 0)

-----------------------------------------------------------------------------
(* queue.PriorityQueue as DSAGodMode uses it: a heap list of tuples          *)
(* (-priority, routing_info) ordered by Python's tuple comparison.  List     *)
(* positions are 0-based as in heapq; At and Swap translate to 1-based       *)
(* sequences.                                                                *)

\* Configured capacity explored: the one of the overflow scenario.
QueueSizes == {2}

\* Sensitivity variant of maxsize: the queue built with the configured bound,
\* queue.PriorityQueue(maxsize=max_queue_size).
maxsize_configured == CHOOSE n \in QueueSizes : TRUE

\* queue.PriorityQueue() is constructed without maxsize
maxsize == 0

At(h, i) == h[i + 1]

Swap(h, i, j) == [h EXCEPT ![i + 1] = h[j + 1], ![j + 1] = h[i + 1]]

\* (-p1, info1) < (-p2, info2): decided by the first components when they
\* differ; equal dicts make the tuples equal; two different dicts cannot be
\* ordered and the comparison raises TypeError.
TupleLt(a, b) ==
    IF a.negprio # b.negprio
    THEN (IF a.negprio < b.negprio THEN "true" ELSE "false")
    ELSE IF a.info = b.info THEN "false" ELSE "raise"

\* heapq._siftdown: move the item at pos up while it is smaller than its parent
RECURSIVE SiftDown(_, _, _)
SiftDown(h, startpos, pos) ==
    IF pos <= startpos
    THEN [heap |-> h, err |-> FALSE]
    ELSE LET parentpos == (pos - 1) \div 2
             c == TupleLt(At(h, pos), At(h, parentpos))
         IN  CASE c = "raise" -> [heap |-> h, err |-> TRUE]
               [] c = "false" -> [heap |-> h, err |-> FALSE]
               [] OTHER       -> SiftDown(Swap(h, pos, parentpos), startpos, parentpos)

\* heapq._siftup, first half: bubble the smaller child up until a leaf is hit
RECURSIVE SiftUpLoop(_, _)
SiftUpLoop(h, pos) ==
    LET endpos == Len(h)
        limit  == endpos \div 2
    IN  IF pos >= limit
        THEN [heap |-> h, pos |-> pos, err |-> FALSE]
        ELSE LET childpos == 2 * pos + 1
                 c == IF childpos + 1 < endpos
                      THEN TupleLt(At(h, childpos), At(h, childpos + 1))
                      ELSE "true"
             IN  IF c = "raise"
                 THEN [heap |-> h, pos |-> pos, err |-> TRUE]
                 ELSE LET smaller == IF c = "false" THEN childpos + 1 ELSE childpos
                      IN  SiftUpLoop(Swap(h, pos, smaller), smaller)

\* heapq._siftup: then sift the item back down to its final place
SiftUp(h, pos) ==
    LET r == SiftUpLoop(h, pos)
    IN  IF r.err THEN [heap |-> r.heap, err |-> TRUE]
        ELSE SiftDown(r.heap, pos, r.pos)

\* PriorityQueue._put = heappush: the item is appended before it is sifted,
\* so it stays in the list when a comparison raises.
heappush(h, item) == SiftDown(Append(h, item), 0, Len(h))

\* PriorityQueue._get = heappop: the last item replaces the root before the
\* sift; when a comparison raises, the old root is neither returned nor kept.
\* Sensitivity variant of heappop: the smallest entry is returned and left
\* in the heap.
heappop_peek(h) == [heap |-> h, err |-> FALSE, item |-> <<h[1]>>]

heappop(h) ==
    LET n    == Len(h)
        last == h[n]
        rest == SubSeq(h, 1, n - 1)
    IN  IF n = 1
        THEN [heap |-> <<>>, err |-> FALSE, item |-> <<last>>]
        ELSE LET r == SiftUp([rest EXCEPT ![1] = last], 0)
             IN  [heap |-> r.heap, err |-> r.err,
                  item |-> IF r.err THEN <<>> ELSE <<h[1]>>]

\* Queue.full()
full(h) == 0 < maxsize /\ maxsize <= Len(h)

\* Queue.task_done() raises ValueError when no task is unfinished
TaskDoneRaises(unfinished) == unfinished - 1 < 0

Priority(entry) == 0 - entry.negprio

-----------------------------------------------------------------------------
(* Capture sources of DSAGodMode *)

\* Sensitivity variant of voice_is_dsa_question: no minimum length.
voice_is_dsa_question_nolength(text) ==
    text \in {"palindrome", "btree", "findheap", "findmaxheap"}

\* ScreenAnalyzer.is_dsa_question: at least 20 characters and one of its
\* patterns ("tree" and "heap" here; the palindrome text and "ok" match none)
screen_is_dsa_question(text) ==
    /\ ~(text_len(text) < 20)
    /\ text \in {"btree", "heaptable", "findheap", "findmaxheap"}

\* VoiceListener.is_dsa_question: at least 10 characters and two keywords or
\* one question pattern ("find", "what is"; the heap table text and "ok"
\* have neither)
voice_is_dsa_question(text) ==
    /\ ~(text_len(text) < 10)
    /\ text \in {"palindrome", "btree", "findheap", "findmaxheap"}

is_dsa_question(source, text) ==
    IF source = "screen" THEN screen_is_dsa_question(text)
    ELSE voice_is_dsa_question(text)

-----------------------------------------------------------------------------
(* DSAGodMode *)

\* A callback is None, a function that returns, or a function that raises.
\* The registrations explored by set_callbacks:
CallbackSets == {[qd |-> "none",    sr |-> "none",    er |-> "none"],
                 [qd |-> "returns", sr |-> "returns", er |-> "returns"],
                 [qd |-> "raises",  sr |-> "raises",  er |-> "raises"]}

Registered(cb) == cb # "none"

Raises(cb) == cb = "raises"

\* What solving a question does.  The solvers and the commentator are
\* deterministic in the question text, so the behaviour is a table over the
\* sample texts, one text for each thing a solve can do: SolverEngine.solve
\* returns a solution ("ok"), SolverEngine.solve returns an error result
\* ("error_result"), or the commentator called on the solution raises ("raises").
SolveOutcome(text) ==
    CASE text = "palindrome" -> "ok"
      [] text = "btree"      -> "error_result"
      [] text = "heaptable"  -> "raises"
      [] text \in ShortTexts -> "ok"


Bump(st, field) == [st EXCEPT ![field] = @ + 1]

ErrorRecord(context) == [kind |-> "error", question |-> "none", context |-> context]

SolutionRecord(text) == [kind |-> "solution", question |-> text, context |-> "none"]

GodStep == program \in {"DSAGodMode", "DSAGodModeCapture"}

\* DSAGodMode._on_text_detected(text, source); ts is the value time.time()
\* returns in route_question, in seconds.  Successive calls read increasing
\* clock values (the calls explored are one second apart), so ts also tells
\* the order in which entries were built.
\* result: "queued" (the put returned), "dropped" (queue full), "error" (the
\* try block raised before the entry was counted).  escaped: an exception
\* left the handler, towards the capture loop.
on_text_detected(text, source, ts) ==
    LET routing_info == route_question(text, source, ts)
        priority     == get_solver_priority(routing_info)
        entry        == [negprio |-> 0 - priority, info |-> routing_info]
        pushed       == heappush(question_queue, entry)
        counted      == Bump(stats, IF source = "screen" THEN "screen_detections"
                                    ELSE "voice_detections")
    IN  IF full(question_queue)
        THEN [queue |-> question_queue, unfinished |-> unfinished_tasks, stats |-> stats,
              result |-> "dropped", escaped |-> FALSE]
        ELSE IF pushed.err
        THEN [queue |-> pushed.heap, unfinished |-> unfinished_tasks, stats |-> stats,
              result |-> "error", escaped |-> Raises(callbacks.er)]
        ELSE [queue |-> pushed.heap, unfinished |-> unfinished_tasks + 1,
              stats |-> IF source \in {"screen", "voice"} THEN counted ELSE stats,
              result |-> "queued",
              escaped |-> Raises(callbacks.qd) /\ Raises(callbacks.er)]

\* One iteration of ScreenAnalyzer.analyze_screen / VoiceListener.listen_continuously
\* that captured `text`: a new question text is handed to _on_text_detected and
\* remembered as the last text unless the callback raised.
Capture(source, text) ==
    /\ GodStep
    /\ analyzers[source].running
    /\ calls < MaxDetections
    /\ text # analyzers[source].last_text
    /\ is_dsa_question(source, text)
    /\ LET r == on_text_detected(text, source, calls + 1)
       IN  /\ question_queue' = r.queue
           /\ unfinished_tasks' = r.unfinished
           /\ stats' = r.stats
           /\ analyzers' = IF r.escaped THEN analyzers
                           ELSE [analyzers EXCEPT ![source].last_text = text]
    /\ calls' = calls + 1
    /\ UNCHANGED <<callVars, rtiVars, ctlVars, program, config_max_queue_size, running, processed_questions,
                   callbacks, threads, lastDispatch, dqAfterStop>>

ScreenCapture == \E text \in Texts : Capture("screen", text)

VoiceCapture == \E text \in Texts : Capture("voice", text)

\* DSAGodMode.set_callbacks, called as main() and demo.py call it: on the
\* constructed object, before start().
SetCallbacks ==
    /\ GodStep
    /\ threads = <<>>
    /\ \E c \in CallbackSets : c # callbacks /\ callbacks' = c
    /\ UNCHANGED <<callVars, rtiVars, ctlVars, program, config_max_queue_size, running, question_queue,
                   unfinished_tasks, processed_questions, stats, threads, analyzers,
                   calls, lastDispatch, dqAfterStop>>

\* DSAGodMode.start: a no-op when already running; otherwise new capture
\* sources are created and started and one more QuestionProcessor thread is
\* appended to self.threads.
Start ==
    /\ GodStep
    /\ ~running
    /\ Len(threads) < MaxThreads
    /\ running' = TRUE
    /\ analyzers' = [src \in Sources |-> [running |-> TRUE, last_text |-> ""]]
    /\ threads' = Append(threads, "check")
    /\ dqAfterStop' = [t \in 1..(Len(threads) + 1) |-> 0]
    /\ UNCHANGED <<callVars, rtiVars, ctlVars, program, config_max_queue_size, question_queue, unfinished_tasks,
                   processed_questions, stats, callbacks, calls, lastDispatch>>

ThreadAlive(pc) == pc \in {"check", "get"}

\* DSAGodMode.stop: the flag is cleared and the capture sources are stopped.
\* Each thread.join(timeout=5.0) then returns when its thread has ended or
\* when the timeout expires, whichever comes first, and changes nothing: a
\* dispatch thread may therefore still be alive after stop has returned.
Stop ==
    /\ GodStep
    /\ running
    /\ running' = FALSE
    /\ analyzers' = [src \in Sources |-> [analyzers[src] EXCEPT !.running = FALSE]]
    /\ dqAfterStop' = [t \in DOMAIN dqAfterStop |-> 0]
    /\ UNCHANGED <<callVars, rtiVars, ctlVars, program, config_max_queue_size, question_queue, unfinished_tasks,
                   processed_questions, stats, callbacks, threads, calls, lastDispatch>>

\* Sensitivity variant of CheckRunning: a loop that does not read the flag.
CheckRunning_unconditional(t) ==
    /\ GodStep
    /\ threads[t] = "check"
    /\ threads' = [threads EXCEPT ![t] = "get"]
    /\ dqAfterStop' = [dqAfterStop EXCEPT ![t] = IF threads'[t] = "done" THEN 0 ELSE @]
    /\ UNCHANGED <<callVars, rtiVars, ctlVars, program, config_max_queue_size, running, question_queue,
                   unfinished_tasks, processed_questions, stats, callbacks, analyzers,
                   calls, lastDispatch>>

\* _process_questions: the loop condition `while self.running`
CheckRunning(t) ==
    /\ GodStep
    /\ threads[t] = "check"
    /\ threads' = [threads EXCEPT ![t] = IF running THEN "get" ELSE "done"]
    /\ dqAfterStop' = [dqAfterStop EXCEPT ![t] = IF threads'[t] = "done" THEN 0 ELSE @]
    /\ UNCHANGED <<callVars, rtiVars, ctlVars, program, config_max_queue_size, running, question_queue,
                   unfinished_tasks, processed_questions, stats, callbacks, analyzers,
                   calls, lastDispatch>>

\* Sensitivity variant of GetTimeout: a get without timeout keeps waiting on
\* the empty queue and never returns to the loop condition.
GetTimeout_blocking(t) ==
    /\ GodStep
    /\ threads[t] = "get"
    /\ question_queue = <<>>
    /\ threads' = [threads EXCEPT ![t] = "get"]
    /\ UNCHANGED <<callVars, rtiVars, ctlVars, program, config_max_queue_size, running, question_queue,
                   unfinished_tasks, processed_questions, stats, callbacks, analyzers,
                   calls, lastDispatch, dqAfterStop>>

\* _process_questions: question_queue.get(timeout=1.0) raises queue.Empty
GetTimeout(t) ==
    /\ GodStep
    /\ threads[t] = "get"
    /\ question_queue = <<>>
    /\ threads' = [threads EXCEPT ![t] = "check"]
    /\ UNCHANGED <<callVars, rtiVars, ctlVars, program, config_max_queue_size, running, question_queue,
                   unfinished_tasks, processed_questions, stats, callbacks, analyzers,
                   calls, lastDispatch, dqAfterStop>>

\* DSAGodMode._solve_question(routing_info).  records: what reached the
\* callbacks; escaped: an exception left _solve_question.
solve_question(routing_info, outcome) ==
    LET text == routing_info.text
        onError == IF Registered(callbacks.er) THEN <<ErrorRecord("solving")>> ELSE <<>>
        stored == Append(processed_questions, SolutionRecord(text))
        solved == Bump(Bump(stats, "questions_processed"), "solutions_generated")
    IN  CASE outcome = "error_result" ->
               [processed |-> processed_questions, stats |-> stats,
                records |-> <<>>, escaped |-> FALSE]
          [] outcome = "raises" ->
               [processed |-> processed_questions, stats |-> Bump(stats, "errors"),
                records |-> onError, escaped |-> Raises(callbacks.er)]
          [] OTHER ->
               IF Raises(callbacks.sr)
               THEN [processed |-> stored, stats |-> Bump(solved, "errors"),
                     records |-> <<SolutionRecord(text)>> \o onError,
                     escaped |-> Raises(callbacks.er)]
               ELSE [processed |-> stored, stats |-> solved,
                     records |-> IF Registered(callbacks.sr)
                                 THEN <<SolutionRecord(text)>> ELSE <<>>,
                     escaped |-> FALSE]

\* _process_questions, one iteration that finds the queue non-empty: get,
\* _solve_question, task_done, and the handler of whatever they raise.  An
\* on_error that raises inside the loop's own handler ends the thread.
Dispatch(t) ==
    /\ GodStep
    /\ threads[t] = "get"
    /\ question_queue # <<>>
    /\    LET got     == heappop(question_queue)
              outcome == SolveOutcome(got.item[1].info.text)
              s       == solve_question(got.item[1].info, outcome)
              handled == IF Registered(callbacks.er)
                         THEN <<ErrorRecord("question_processing")>> ELSE <<>>
              dies    == Raises(callbacks.er)
          IN  /\ question_queue' = got.heap
              /\ IF got.err
                 THEN /\ stats' = Bump(stats, "errors")
                      /\ threads' = [threads EXCEPT ![t] = IF dies THEN "crashed" ELSE "check"]
                      /\ UNCHANGED <<unfinished_tasks, processed_questions, lastDispatch>>
                 ELSE /\ processed_questions' = s.processed
                      /\ IF s.escaped \/ TaskDoneRaises(unfinished_tasks)
                         THEN /\ stats' = Bump(s.stats, "errors")
                              /\ unfinished_tasks' = unfinished_tasks
                              /\ threads' = [threads EXCEPT
                                               ![t] = IF dies THEN "crashed" ELSE "check"]
                              /\ lastDispatch' = <<[info |-> got.item[1].info,
                                                    outcome |-> outcome,
                                                    records |-> s.records \o handled]>>
                         ELSE /\ stats' = s.stats
                              /\ unfinished_tasks' = unfinished_tasks - 1
                              /\ threads' = [threads EXCEPT ![t] = "check"]
                              /\ lastDispatch' = <<[info |-> got.item[1].info,
                                                    outcome |-> outcome,
                                                    records |-> s.records]>>
    /\ dqAfterStop' = [dqAfterStop EXCEPT ![t] = IF running THEN @ ELSE @ + 1]
    /\ UNCHANGED <<callVars, rtiVars, ctlVars, program, config_max_queue_size, running, callbacks, analyzers, calls>>

\* DSAGodMode.__init__
GodConstructed ==
    /\ config_max_queue_size \in QueueSizes
    /\ running = FALSE
    /\ question_queue = <<>>
    /\ unfinished_tasks = 0
    /\ processed_questions = <<>>
    /\ stats = [questions_processed |-> 0, solutions_generated |-> 0,
                screen_detections |-> 0, voice_detections |-> 0, errors |-> 0]
    /\ callbacks = [qd |-> "none", sr |-> "none", er |-> "none"]
    /\ threads = <<>>
    /\ analyzers = [src \in Sources |-> [running |-> FALSE, last_text |-> ""]]
    /\ calls = 0
    /\ lastDispatch = <<>>
    /\ dqAfterStop = <<>>

GodNext ==
    \/ ScreenCapture
    \/ VoiceCapture
    \/ SetCallbacks
    \/ Start
    \/ Stop
    \/ \E t \in DOMAIN threads : CheckRunning(t)
    \/ \E t \in DOMAIN threads : GetTimeout(t)
    \/ \E t \in DOMAIN threads : Dispatch(t)

-----------------------------------------------------------------------------
(* Question texts as RealTimeIntelligence and the controller see them:       *)
(* sequences of characters, so that lower() and strip() are computed.        *)

UpperCase == <<"A", "B", "C", "D", "E", "F", "G", "H", "I", "J", "K", "L", "M",
               "N", "O", "P", "Q", "R", "S", "T", "U", "V", "W", "X", "Y", "Z">>

LowerCase == <<"a", "b", "c", "d", "e", "f", "g", "h", "i", "j", "k", "l", "m",
               "n", "o", "p", "q", "r", "s", "t", "u", "v", "w", "x", "y", "z">>

IsSpace(c) == c \in {" ", "\t", "\n"}

LowerOf == [c \in {UpperCase[i] : i \in 1..Len(UpperCase)} |->
               LowerCase[CHOOSE i \in 1..Len(UpperCase) : UpperCase[i] = c]]

\* str.lower()
str_lower(s) == [k \in 1..Len(s) |-> IF s[k] \in DOMAIN LowerOf THEN LowerOf[s[k]] ELSE s[k]]

RECURSIVE str_lstrip(_)
str_lstrip(s) == IF s # <<>> /\ IsSpace(Head(s)) THEN str_lstrip(Tail(s)) ELSE s

RECURSIVE str_rstrip(_)
str_rstrip(s) ==
    IF s # <<>> /\ IsSpace(s[Len(s)]) THEN str_rstrip(SubSeq(s, 1, Len(s) - 1)) ELSE s

\* str.strip()
str_strip(s) == str_rstrip(str_lstrip(s))

\* hash(str): equal strings have equal hashes, and the 64-bit hashes of the
\* few distinct strings of a run are distinct; a hash is represented by the
\* string it was computed from.
str_hash(s) == [hash_of |-> s]

TwoSumText == <<"t", "w", "o", " ", "s", "u", "m", " ", "a", "r", "r", "a", "y">>

TwoSumUpper == <<"T", "w", "o", " ", "S", "u", "m", " ", "A", "r", "r", "a", "y">>

\* The same question in other letter case and with surrounding whitespace
TwoSumVariant == <<" ">> \o TwoSumUpper \o <<" ", "\n">>

\* The same question with two spaces between its first two words
TwoSumSpaced == <<"t", "w", "o", " ", " ", "s", "u", "m", " ", "a", "r", "r", "a", "y">>

LruCacheText == <<"l", "r", "u", " ", "c", "a", "c", "h", "e", " ", "g", "e", "t">>

BfsGridText == <<"b", "f", "s", " ", "o", "n", " ", "a", " ", "g", "r", "i", "d">>

-----------------------------------------------------------------------------
(* RealTimeIntelligence *)

MaxRtiCalls == 3        \* _should_process_question calls explored
MaxClock == 62          \* last clock value explored, in seconds

\* Advances of the clock between two steps of the loop, in seconds
ClockSteps == {29, 30, 31}

deduplication_window == 30

\* min_confidence_threshold = 0.4, in tenths
min_confidence_threshold10 == 4

\* Detections delivered by OmniscientVision / SupernaturalListener: the text
\* and the confidence in tenths
RtiDetections == {[text |-> TwoSumText,    confidence10 |-> 9],
                  [text |-> TwoSumVariant, confidence10 |-> 3],
                  [text |-> TwoSumSpaced,  confidence10 |-> 9],
                  [text |-> LruCacheText,  confidence10 |-> 9]}

\* What OmnipotentSolver.solve_question does for a question text: it returns
\* a solution, or it raises.
RtiSolves(text) == text # LruCacheText

RtiStep == program = "RealTimeIntelligence"

\* Sensitivity variant of should_process_question: the window test written
\* with <= instead of <.
should_process_question_le(question_text, current_time, recent) ==
    LET question_hash == str_hash(str_strip(str_lower(question_text)))
    IN  IF /\ question_hash \in DOMAIN recent
           /\ current_time - recent[question_hash] <= deduplication_window
        THEN [result |-> FALSE, recent |-> recent]
        ELSE [result |-> TRUE,
              recent |-> [h \in DOMAIN recent \cup {question_hash} |->
                             IF h = question_hash THEN current_time ELSE recent[h]]]

\* Sensitivity variant of should_process_question: the timestamp is stored
\* before the duplicate test answers, so a suppressed duplicate refreshes it.
should_process_question_refresh(question_text, current_time, recent) ==
    LET question_hash == str_hash(str_strip(str_lower(question_text)))
        refreshed == [h \in DOMAIN recent \cup {question_hash} |->
                        IF h = question_hash THEN current_time ELSE recent[h]]
    IN  IF /\ question_hash \in DOMAIN recent
           /\ current_time - recent[question_hash] < deduplication_window
        THEN [result |-> FALSE, recent |-> refreshed]
        ELSE [result |-> TRUE, recent |-> refreshed]

\* RealTimeIntelligence._should_process_question(question_text) called at
\* current_time with the dictionary `recent`: the result and the dictionary
\* it leaves
should_process_question(question_text, current_time, recent) ==
    LET question_hash == str_hash(str_strip(str_lower(question_text)))
    IN  IF /\ question_hash \in DOMAIN recent
           /\ current_time - recent[question_hash] < deduplication_window
        THEN [result |-> FALSE, recent |-> recent]
        ELSE [result |-> TRUE,
              recent |-> [h \in DOMAIN recent \cup {question_hash} |->
                             IF h = question_hash THEN current_time ELSE recent[h]]]

\* One iteration of the while loop of _process_visual_questions /
\* _process_audio_questions: a detection is taken from the subsystem and
\* queued (_queue_question) when _should_process_question accepts its text.
RtiProcess(d, source) ==
    /\ RtiStep
    /\ rti_calls < MaxRtiCalls
    /\ LET r == should_process_question(d.text, rti_now, recent_questions)
           h == str_hash(str_strip(str_lower(d.text)))
       IN  /\ recent_questions' = r.recent
           /\ processing_queue' = IF r.result
                                  THEN Append(processing_queue,
                                              [question |-> d, source |-> source,
                                               timestamp |-> rti_now])
                                  ELSE processing_queue
           /\ lastShould' = <<[hash |-> h, source |-> source, time |-> rti_now,
                               result |-> r.result]>>
           /\ lastAccepted' = IF r.result
                              THEN [k \in DOMAIN lastAccepted \cup {h} |->
                                      IF k = h THEN rti_now ELSE lastAccepted[k]]
                              ELSE lastAccepted
    /\ rti_calls' = rti_calls + 1
    /\ UNCHANGED <<callVars, godVars, ctlVars, program, rti_now, results_queue, questions_processed>>

\* OmniscientVision._validate_question and
\* SupernaturalListener._validate_audio_question: the confidence (in tenths)
\* below which a detector does not hand a question on.
vision_min_confidence10 == 3

audio_min_confidence10 == 4

process_visual_questions ==
    \E d \in RtiDetections :
        /\ ~(d.confidence10 < vision_min_confidence10)
        /\ RtiProcess(d, "screen")

process_audio_questions ==
    \E d \in RtiDetections :
        /\ ~(d.confidence10 < audio_min_confidence10)
        /\ RtiProcess(d, "audio")

\* _process_question_queue: get_nowait and _solve_question.  A question below
\* min_confidence_threshold is skipped; otherwise the solver either returns
\* (a report is queued) or raises, and _update_statistics counts the question.
process_question_queue ==
    /\ RtiStep
    /\ processing_queue # <<>>
    /\ processing_queue' = Tail(processing_queue)
    /\ LET question_data == Head(processing_queue)
       IN  IF question_data.question.confidence10 < min_confidence_threshold10
           THEN UNCHANGED <<results_queue, questions_processed>>
           ELSE /\ questions_processed' = questions_processed + 1
                /\ results_queue' = IF RtiSolves(question_data.question.text)
                                    THEN Append(results_queue,
                                                [question |-> question_data.question.text,
                                                 source |-> question_data.source])
                                    ELSE results_queue
    /\ UNCHANGED <<callVars, godVars, ctlVars, program, rti_now, recent_questions, rti_calls,
                   lastShould, lastAccepted>>

\* Sensitivity variant of cleanup_old_questions: the age test written with <
\* instead of >.
cleanup_old_questions_lt ==
    /\ RtiStep
    /\ LET expired_questions == {h \in DOMAIN recent_questions :
                                    rti_now - recent_questions[h] < deduplication_window}
       IN  /\ expired_questions # {}
           /\ recent_questions' = [h \in DOMAIN recent_questions \ expired_questions |->
                                      recent_questions[h]]
    /\ UNCHANGED <<callVars, godVars, ctlVars, program, rti_now, processing_queue, results_queue,
                   questions_processed, rti_calls, lastShould, lastAccepted>>

\* _cleanup_old_questions
cleanup_old_questions ==
    /\ RtiStep
    /\ LET expired_questions == {h \in DOMAIN recent_questions :
                                    rti_now - recent_questions[h] > deduplication_window}
       IN  /\ expired_questions # {}
           /\ recent_questions' = [h \in DOMAIN recent_questions \ expired_questions |->
                                      recent_questions[h]]
    /\ UNCHANGED <<callVars, godVars, ctlVars, program, rti_now, processing_queue, results_queue,
                   questions_processed, rti_calls, lastShould, lastAccepted>>

\* time.sleep and whatever else lets the clock advance
RtiTick ==
    /\ RtiStep
    /\ \E dt \in ClockSteps : rti_now + dt <= MaxClock /\ rti_now' = rti_now + dt
    /\ UNCHANGED <<callVars, godVars, ctlVars, program, recent_questions, processing_queue,
                   results_queue, questions_processed, rti_calls, lastShould, lastAccepted>>

\* RealTimeIntelligence.__init__
RtiConstructed ==
    /\ rti_now = 0
    /\ recent_questions = [h \in {} |-> 0]
    /\ processing_queue = <<>>
    /\ results_queue = <<>>
    /\ questions_processed = 0
    /\ rti_calls = 0
    /\ lastShould = <<>>
    /\ lastAccepted = [h \in {} |-> 0]

RtiNext ==
    \/ process_visual_questions
    \/ process_audio_questions
    \/ process_question_queue
    \/ cleanup_old_questions
    \/ RtiTick

-----------------------------------------------------------------------------
(* RealTimeIntelligenceController *)

MaxCtlDetections == 3   \* _process_detected_question calls explored

\* IntelligenceConfig.confidence_threshold = 0.7, in tenths
confidence_threshold10 == 7

\* IntelligenceConfig.auto_solve_enabled
auto_solve_enabled == TRUE

\* Question dicts returned by get_detected_questions: the text and the
\* confidence in tenths
CtlQuestions == {[text |-> TwoSumText,    confidence10 |-> 9],
                 [text |-> TwoSumVariant, confidence10 |-> 5],
                 [text |-> LruCacheText,  confidence10 |-> 9],
                 [text |-> BfsGridText,   confidence10 |-> 9]}

\* The registrations explored by register_question_callback /
\* register_solution_callback
CtlCallbackSets == {[question_detected |-> "none",    solution_ready |-> "none"],
                    [question_detected |-> "returns", solution_ready |-> "returns"],
                    [question_detected |-> "raises",  solution_ready |-> "raises"]}

\* How UniversalSolver.solve_question ends for a question text: with a
\* response ("ok"), with the error response it builds when it catches a
\* failure of its own ("error_response"), or with an exception that reaches
\* the controller ("raises").  The solver is deterministic in the text.
CtlSolveOutcome(text) ==
    CASE text = LruCacheText -> "error_response"
      [] text = BfsGridText  -> "raises"
      [] OTHER               -> "ok"

CtlStep == program = "RealTimeIntelligenceController"

\* RealTimeIntelligenceController._process_detected_question(question_data, source):
\* what it leaves in processed_questions, question_queue and stats, and
\* whether the question_detected callback let an exception out.
process_detected_question(question_data, source) ==
    LET question_text == str_strip(question_data.text)
        question_hash == str_hash(str_lower(question_text))
        enhanced_question == [text |-> question_data.text,
                              confidence10 |-> question_data.confidence10,
                              source |-> source]
        same == [processed |-> ctl_processed_questions, queue |-> ctl_question_queue,
                 stats |-> ctl_stats, escaped |-> FALSE]
    IN  IF question_text = <<>> \/ Len(question_text) < 10
        THEN same
        ELSE IF question_hash \in ctl_processed_questions
        THEN same
        ELSE IF question_data.confidence10 < confidence_threshold10
        THEN [same EXCEPT !.processed = @ \cup {question_hash}]
        ELSE [processed |-> ctl_processed_questions \cup {question_hash},
              queue |-> IF auto_solve_enabled
                        THEN Append(ctl_question_queue, enhanced_question)
                        ELSE ctl_question_queue,
              stats |-> Bump(ctl_stats, "questions_detected"),
              escaped |-> Raises(ctl_callbacks.question_detected)]

\* _intelligence_loop: the loop condition `while self.is_running`
CtlLoopCheck ==
    /\ CtlStep
    /\ ctl_threads.controller = "check"
    /\ ctl_threads' = [ctl_threads EXCEPT
                         !.controller = IF is_running THEN "collect" ELSE "done"]
    /\ UNCHANGED <<callVars, godVars, rtiVars, program, is_running, ctl_question_queue,
                   solution_queue, ctl_processed_questions, ctl_stats, ctl_callbacks,
                   ctl_main, ctl_detections, lastSolve, ctl_dqAfterStop>>

\* _intelligence_loop: one question of the list a source returned.  An
\* exception of the callback is caught by the loop's handler, which abandons
\* the iteration.
CtlCollectBody(question_data, source) ==
    /\ CtlStep
    /\ ctl_threads.controller = "collect"
    /\ ctl_detections < MaxCtlDetections
    /\ LET r == process_detected_question(question_data, source)
       IN  /\ ctl_processed_questions' = r.processed
           /\ ctl_question_queue' = r.queue
           /\ ctl_stats' = IF r.escaped THEN r.stats
                           ELSE Bump(r.stats, IF source = "screen" THEN "screen_detections"
                                              ELSE "voice_detections")
           /\ ctl_threads' = IF r.escaped THEN [ctl_threads EXCEPT !.controller = "check"]
                             ELSE ctl_threads
    /\ ctl_detections' = ctl_detections + 1
    /\ UNCHANGED <<godVars, rtiVars, program, is_running, solution_queue, ctl_callbacks,
                   ctl_main, lastSolve, ctl_dqAfterStop>>

CtlCollect(question_data, source) ==
    /\ CtlCollectBody(question_data, source)
    /\ UNCHANGED callVars

CtlCollectScreen == \E q \in CtlQuestions : CtlCollect(q, "screen")

CtlCollectVoice == \E q \in CtlQuestions : CtlCollect(q, "voice")

\* _intelligence_loop: both lists are exhausted, time.sleep(0.5)
CtlSleep ==
    /\ CtlStep
    /\ ctl_threads.controller = "collect"
    /\ ctl_threads' = [ctl_threads EXCEPT !.controller = "check"]
    /\ UNCHANGED <<callVars, godVars, rtiVars, program, is_running, ctl_question_queue,
                   solution_queue, ctl_processed_questions, ctl_stats, ctl_callbacks,
                   ctl_main, ctl_detections, lastSolve, ctl_dqAfterStop>>

\* Sensitivity variant of ctl_solve_question: the exception handler returns
\* a dict without the 'error' key.
ctl_solve_question_unmarked(question_data, outcome) ==
    [error |-> outcome = "error_response", question |-> question_data.text,
     source |-> question_data.source]

\* RealTimeIntelligenceController._solve_question(question_data): the dict it
\* returns.  The error dict of the handler and the error response of
\* UniversalSolver both hold an 'error' key and the question text.
ctl_solve_question(question_data, outcome) ==
    [error |-> outcome # "ok", question |-> question_data.text,
     source |-> question_data.source]

\* _solver_loop: the loop condition `while self.is_running`
CtlSolverCheck ==
    /\ CtlStep
    /\ ctl_threads.solver = "check"
    /\ ctl_threads' = [ctl_threads EXCEPT !.solver = IF is_running THEN "get" ELSE "done"]
    /\ ctl_dqAfterStop' = IF ctl_threads'.solver = "done" THEN 0 ELSE ctl_dqAfterStop
    /\ UNCHANGED <<callVars, godVars, rtiVars, program, is_running, ctl_question_queue,
                   solution_queue, ctl_processed_questions, ctl_stats, ctl_callbacks,
                   ctl_main, ctl_detections, lastSolve>>

\* _solver_loop: question_queue.get(timeout=1.0) raises queue.Empty
CtlSolverTimeout ==
    /\ CtlStep
    /\ ctl_threads.solver = "get"
    /\ ctl_question_queue = <<>>
    /\ ctl_threads' = [ctl_threads EXCEPT !.solver = "check"]
    /\ UNCHANGED <<callVars, godVars, rtiVars, program, is_running, ctl_question_queue,
                   solution_queue, ctl_processed_questions, ctl_stats, ctl_callbacks,
                   ctl_main, ctl_detections, lastSolve, ctl_dqAfterStop>>

\* _solver_loop, one iteration that finds a question: get, _solve_question,
\* solution_queue.put, the statistics and the callback, whose exception the
\* loop's handler catches.
CtlSolve ==
    /\ CtlStep
    /\ ctl_threads.solver = "get"
    /\ ctl_question_queue # <<>>
    /\    LET question_data == Head(ctl_question_queue)
              outcome       == CtlSolveOutcome(question_data.text)
              solution      == ctl_solve_question(question_data, outcome)
          IN  /\ ctl_question_queue' = Tail(ctl_question_queue)
              /\ solution_queue' = Append(solution_queue,
                                          [question_data |-> question_data,
                                           solution |-> solution])
              /\ lastSolve' = <<[question_data |-> question_data, outcome |-> outcome]>>
    /\ ctl_stats' = Bump(ctl_stats, "questions_solved")
    /\ ctl_threads' = [ctl_threads EXCEPT !.solver = "check"]
    /\ ctl_dqAfterStop' = IF is_running THEN ctl_dqAfterStop ELSE ctl_dqAfterStop + 1
    /\ UNCHANGED <<callVars, godVars, rtiVars, program, is_running, ctl_processed_questions,
                   ctl_callbacks, ctl_main, ctl_detections>>

\* register_question_callback / register_solution_callback, called as main()
\* calls them: on the constructed controller, before start_intelligence
CtlRegister ==
    /\ CtlStep
    /\ ctl_threads.solver = "none"
    /\ \E c \in CtlCallbackSets : c # ctl_callbacks /\ ctl_callbacks' = c
    /\ UNCHANGED <<callVars, godVars, rtiVars, program, is_running, ctl_question_queue,
                   solution_queue, ctl_processed_questions, ctl_stats, ctl_threads,
                   ctl_main, ctl_detections, lastSolve, ctl_dqAfterStop>>

\* start_intelligence: a no-op when already running; otherwise the flag is
\* set and a new controller thread and a new solver thread are started
start_intelligence ==
    /\ CtlStep
    /\ ctl_main = "idle"
    /\ ~is_running
    /\ is_running' = TRUE
    /\ ctl_threads' = [controller |-> "check", solver |-> "check"]
    /\ ctl_dqAfterStop' = 0
    /\ UNCHANGED <<callVars, godVars, rtiVars, program, ctl_question_queue, solution_queue,
                   ctl_processed_questions, ctl_stats, ctl_callbacks, ctl_main,
                   ctl_detections, lastSolve>>

\* stop_intelligence up to the joins: the flag is cleared
stop_intelligence ==
    /\ CtlStep
    /\ ctl_main = "idle"
    /\ is_running
    /\ is_running' = FALSE
    /\ ctl_main' = "joining"
    /\ ctl_dqAfterStop' = 0
    /\ UNCHANGED <<callVars, godVars, rtiVars, program, ctl_question_queue, solution_queue,
                   ctl_processed_questions, ctl_stats, ctl_callbacks, ctl_threads,
                   ctl_detections, lastSolve>>

\* stop_intelligence: controller_thread.join() and solver_thread.join() have
\* no timeout and return when both threads have ended
StopIntelligenceReturns ==
    /\ CtlStep
    /\ ctl_main = "joining"
    /\ ctl_threads.controller = "done"
    /\ ctl_threads.solver = "done"
    /\ ctl_main' = "idle"
    /\ UNCHANGED <<callVars, godVars, rtiVars, program, is_running, ctl_question_queue,
                   solution_queue, ctl_processed_questions, ctl_stats, ctl_callbacks,
                   ctl_threads, ctl_detections, lastSolve, ctl_dqAfterStop>>

\* RealTimeIntelligenceController.__init__
CtlConstructed ==
    /\ is_running = FALSE
    /\ ctl_question_queue = <<>>
    /\ solution_queue = <<>>
    /\ ctl_processed_questions = {}
    /\ ctl_stats = [questions_detected |-> 0, questions_solved |-> 0,
                    screen_detections |-> 0, voice_detections |-> 0]
    /\ ctl_callbacks = [question_detected |-> "none", solution_ready |-> "none"]
    /\ ctl_threads = [controller |-> "none", solver |-> "none"]
    /\ ctl_main = "idle"
    /\ ctl_detections = 0
    /\ lastSolve = <<>>
    /\ ctl_dqAfterStop = 0

CtlNext ==
    \/ CtlRegister
    \/ start_intelligence
    \/ stop_intelligence
    \/ StopIntelligenceReturns
    \/ CtlLoopCheck
    \/ CtlCollectScreen
    \/ CtlCollectVoice
    \/ CtlSleep
    \/ CtlSolverCheck
    \/ CtlSolverTimeout
    \/ CtlSolve

-----------------------------------------------------------------------------
(* Specifications: one per orchestrator, each started from the constructed   *)
(* objects, and one for the two dispatch loops that a stop flag ends.        *)

\* No call is in progress and no pure function has been called yet.
NoHistory ==
    /\ ctl_now = 0
    /\ ctl_accepted = [h \in {} |-> 0]
    /\ ctl_batch = <<>>
    /\ ctl_abandoned = {}
    /\ ctl_order = [src \in {"screen", "voice"} |-> [reported |-> 0, placed |-> <<>>]]
    /\ rti_control = [is_active |-> FALSE, auto_solve |-> TRUE, threads |-> 0]
    /\ ocr = [is_running |-> FALSE, seen_hashes |-> {}, text_queue |-> <<>>,
              last_hash |-> [region \in {"top", "bottom"} |-> ""], emitted |-> {}]
    /\ analyzer = [is_running |-> FALSE, last_detected_hash |-> <<>>, question_queue |-> <<>>,
                   previous_scan |-> <<>>, scans |-> 0]
    /\ clipboard = [is_running |-> FALSE, last_content |-> 0, seen_hashes |-> <<>>,
                    text_queue |-> <<>>]

NoCalls ==
    /\ producer = [src \in Sources |-> <<>>]
    /\ call = <<>>
    /\ NoHistory

Constructed == GodConstructed /\ RtiConstructed /\ CtlConstructed /\ NoCalls

GodInit == program = "DSAGodMode" /\ Constructed

RtiInit == program = "RealTimeIntelligence" /\ Constructed

CtlInit == program = "RealTimeIntelligenceController" /\ Constructed

SpecGod == GodInit /\ [][GodNext]_vars

SpecRti == RtiInit /\ [][RtiNext]_vars

SpecCtl == CtlInit /\ [][CtlNext]_vars

SpecLoops == (GodInit \/ CtlInit) /\ [][GodNext \/ CtlNext]_vars

-----------------------------------------------------------------------------
(* Properties of the DSAGodMode queue *)

\* A step in which _process_questions took an entry out of question_queue
Removes == Len(question_queue') < Len(question_queue)

\* A step in which question_queue.get handed an entry to _solve_question
Hands == lastDispatch' # lastDispatch

\* A step that is a call of _on_text_detected
Detects == calls' # calls

\* The entry the call of a Detects step built (its timestamp is the call's)
Built(h, ts) == {i \in 1..Len(h) : h[i].info.timestamp = ts}

\* C1: of the entries that are in question_queue together, the one of higher
\* priority is dequeued first whatever the arrival order: every step in which
\* the consumer takes an entry out of a queue that holds entries of different
\* priorities hands _solve_question an entry whose priority no queued entry
\* exceeds.
C1_PriorityOrder ==
    [][(Removes /\ \E i, j \in 1..Len(question_queue) :
                      Priority(question_queue[i]) > Priority(question_queue[j])) =>
         /\ Hands
         /\ \A i \in 1..Len(question_queue) :
               Priority(question_queue[i]) <= get_solver_priority(lastDispatch'[1].info)]_vars

\* C2: ties are broken by insertion order.  A detection whose priority equals
\* that of a queued entry is enqueued like any other (the put returns and the
\* entry is counted), and the entry handed to _solve_question is the oldest of
\* the queued entries of its priority.
C2_FifoTies ==
    [][/\ (Detects /\ \E i \in Built(question_queue', calls') :
                         \E j \in 1..Len(question_queue) :
                            question_queue[j].negprio = question_queue'[i].negprio)
            => unfinished_tasks' = unfinished_tasks + 1
       /\ Hands => \A j \in 1..Len(question_queue) :
                      Priority(question_queue[j]) = get_solver_priority(lastDispatch'[1].info)
                         => lastDispatch'[1].info.timestamp <= question_queue[j].info.timestamp
      ]_vars

\* C3: the queue never holds more entries than
\* config['question_processing']['max_queue_size'].
C3_QueueBounded == Len(question_queue) <= config_max_queue_size

\* C4: a call of _on_text_detected that finds the queue holding its capacity
\* of entries leaves the heap list exactly as it was.
C4_BackPressure ==
    [][(Detects /\ Len(question_queue) >= config_max_queue_size)
          => question_queue' = question_queue]_vars

\* C6: a text delivered by the screen source and, less than 5 seconds later,
\* by the voice source gives one queue entry: the queue never holds a screen
\* entry and a later voice entry of the same text built less than 5 s apart.
C6_CrossSourceDedup ==
    \A i, j \in 1..Len(question_queue) :
       ~ /\ question_queue[i].info.text = question_queue[j].info.text
         /\ question_queue[i].info.source = "screen"
         /\ question_queue[j].info.source = "voice"
         /\ question_queue[i].info.timestamp < question_queue[j].info.timestamp
         /\ question_queue[j].info.timestamp - question_queue[i].info.timestamp < 5

\* The error records of a dispatch that carry the question they are about
ErrorRecordsFor(records, text) ==
    {k \in 1..Len(records) : records[k].kind = "error" /\ records[k].question = text}

\* C8: a dispatch whose solve failed (SolverEngine.solve returned an error
\* result, or an exception was raised) emits exactly one error record that
\* carries the question, appended to processed_questions or delivered to a
\* registered callback, and the thread goes on to the next loop iteration.
C8_OneErrorRecord ==
    [][(Hands /\ lastDispatch'[1].outcome # "ok") =>
         LET d      == lastDispatch'[1]
             stored == {k \in (Len(processed_questions) + 1)..Len(processed_questions') :
                           /\ processed_questions'[k].kind = "error"
                           /\ processed_questions'[k].question = d.info.text}
         IN  /\ \/ Cardinality(stored) = 1
                \/ Cardinality(ErrorRecordsFor(d.records, d.info.text)) = 1
             /\ \A t \in DOMAIN threads :
                   threads[t] # threads'[t] => threads'[t] = "check"]_vars

\* C9: no exception of a registered callback leaves the dispatch loop: a
\* QuestionProcessor thread ends only by reading running = False.
C9_CallbacksContained == \A t \in DOMAIN threads : threads[t] # "crashed"

-----------------------------------------------------------------------------
(* Properties of RealTimeIntelligence *)

\* A step that is a call of _should_process_question
ShouldCall == rti_calls' # rti_calls

\* C5: _should_process_question answers False exactly when the same
\* normalized text was answered True less than deduplication_window seconds
\* before, whichever source supplied either call: True, then False inside the
\* window, then True again once the window has elapsed.
C5_DedupWindow ==
    [][ShouldCall =>
         LET c == lastShould'[1]
         IN  c.result = ~ /\ c.hash \in DOMAIN lastAccepted
                          /\ c.time - lastAccepted[c.hash] < deduplication_window]_vars

\* C5 witness: three calls with the same normalized text and nothing else;
\* the first (screen, time 0) was queued, the second was not, the third
\* (audio, after the window) has just been answered True and queued.
C5_Witness ==
    /\ rti_calls = 3
    /\ questions_processed = 0
    /\ Len(processing_queue) = 2
    /\ processing_queue[1].source = "screen"
    /\ processing_queue[1].timestamp = 0
    /\ processing_queue[2].source = "audio"
    /\ processing_queue[2].timestamp >= deduplication_window
    /\ str_strip(str_lower(processing_queue[1].question.text))
          = str_strip(str_lower(processing_queue[2].question.text))
    /\ lastShould # <<>>
    /\ lastShould[1].result
    /\ lastShould[1].time = processing_queue[2].timestamp

-----------------------------------------------------------------------------
(* Properties of RealTimeIntelligenceController *)

\* A step in which _solver_loop took a question out of question_queue
CtlDequeues == Len(ctl_question_queue') < Len(ctl_question_queue)

\* C7: every question _solver_loop dequeues gets exactly one record on
\* solution_queue, holding the dequeued question data; when the solve failed
\* the record's solution carries the error marker and the question text; and
\* the thread is back at its loop condition, ready for the next question.
C7_SolverFailureIsolation ==
    [][CtlDequeues =>
         LET q      == Head(ctl_question_queue)
             failed == lastSolve'[1].outcome # "ok"
             rec    == solution_queue'[Len(solution_queue')]
         IN  /\ lastSolve'[1].question_data = q
             /\ Len(solution_queue') = Len(solution_queue) + 1
             /\ SubSeq(solution_queue', 1, Len(solution_queue)) = solution_queue
             /\ rec.question_data = q
             /\ rec.solution.error = failed
             /\ rec.solution.question = q.text
             /\ ctl_threads'.solver = "check"]_vars

\* C7 witness: two solves in a row failed, each leaving its error record, and
\* the third question has been dequeued and solved after them.
C7_Witness ==
    /\ Len(solution_queue) = 3
    /\ solution_queue[1].solution.error
    /\ solution_queue[2].solution.error
    /\ ~solution_queue[3].solution.error
    /\ ctl_stats.questions_solved = 3

-----------------------------------------------------------------------------
(* Shutdown of the dispatch loops *)

-----------------------------------------------------------------------------
(* Termination after stop *)

\* The steps of one QuestionProcessor thread
GodThreadStep(t) ==
    /\ t \in DOMAIN threads
    /\ (CheckRunning(t) \/ GetTimeout(t) \/ Dispatch(t))

\* The steps of the controller thread (_intelligence_loop)
CtlControllerStep == CtlLoopCheck \/ CtlCollectScreen \/ CtlCollectVoice \/ CtlSleep

\* The steps of the solver thread (_solver_loop)
CtlSolverStep == CtlSolverCheck \/ CtlSolverTimeout \/ CtlSolve

\* A step of some thread of the pipeline, or the return of a join whose
\* threads have ended
PipelineStep ==
    \/ \E t \in DOMAIN threads : GodThreadStep(t)
    \/ CtlControllerStep
    \/ CtlSolverStep
    \/ StopIntelligenceReturns

\* The operating system keeps scheduling: while some thread can take a step,
\* one of them eventually does.  (Fairness to each single thread is not
\* needed.)
LoopsFairness == WF_vars(PipelineStep)

SpecLoopsFair == SpecLoops /\ LoopsFairness

GodThreadsEnded == \A t \in DOMAIN threads : threads[t] \in {"done", "crashed"}

CtlThreadsEnded ==
    /\ ctl_threads.controller \in {"none", "done"}
    /\ ctl_threads.solver \in {"none", "done"}

LiveDispatchThreads == {t \in DOMAIN threads : ThreadAlive(threads[t])}

\* C12: at any time at most one dispatch thread is draining
\* DSAGodMode.question_queue, whatever the sequence of start() and stop()
\* calls, a start() after a stop() whose join timed out included.
C12_SingleConsumer == Cardinality(LiveDispatchThreads) <= 1


\* --------------------------------------------------------------------------
\* Capture threads running _on_text_detected concurrently
\* --------------------------------------------------------------------------

\* Queue.put(item) with block=True and no timeout waits while the queue is
\* bounded and holds maxsize entries.
PutBlocks(h) == 0 < maxsize /\ maxsize <= Len(h)

\* _on_text_detected from the put() on: the entry is pushed, the detection is
\* counted and on_question_detected is called; what is raised goes to the
\* handler's except branch.
on_text_detected_put(text, source, ts) ==
    LET routing_info == route_question(text, source, ts)
        priority     == get_solver_priority(routing_info)
        entry        == [negprio |-> 0 - priority, info |-> routing_info]
        pushed       == heappush(question_queue, entry)
        counted      == Bump(stats, IF source = "screen" THEN "screen_detections"
                                    ELSE "voice_detections")
    IN  IF pushed.err
        THEN [queue |-> pushed.heap, unfinished |-> unfinished_tasks, stats |-> stats,
              result |-> "error", escaped |-> Raises(callbacks.er)]
        ELSE [queue |-> pushed.heap, unfinished |-> unfinished_tasks + 1,
              stats |-> counted, result |-> "queued",
              escaped |-> Raises(callbacks.qd) /\ Raises(callbacks.er)]

CaptureStep == program = "DSAGodModeCapture"

\* A capture thread calls _on_text_detected(text, source): the question is
\* routed and question_queue.full() is read.  On a full queue the question is
\* dropped and the call returns; otherwise the thread goes on to put().
DetectBegin(source, text) ==
    /\ CaptureStep
    /\ analyzers[source].running
    /\ producer[source] = <<>>
    /\ calls < MaxDetections
    /\ text # analyzers[source].last_text
    /\ is_dsa_question(source, text)
    /\ IF full(question_queue)
       THEN /\ analyzers' = [analyzers EXCEPT ![source].last_text = text]
            /\ UNCHANGED producer
       ELSE /\ producer' = [producer EXCEPT ![source] = <<[text |-> text, ts |-> calls + 1]>>]
            /\ UNCHANGED analyzers
    /\ calls' = calls + 1
    /\ UNCHANGED <<histVars, call, rtiVars, ctlVars, program, config_max_queue_size, running,
                   question_queue, unfinished_tasks, processed_questions, stats,
                   callbacks, threads, lastDispatch, dqAfterStop>>

\* The put() of the call in progress returns, or raises, and the call ends.
\* The step waits for as long as put() has to wait.
DetectPut(source) ==
    /\ CaptureStep
    /\ producer[source] # <<>>
    /\ ~PutBlocks(question_queue)
    /\ LET p == producer[source][1]
           r == on_text_detected_put(p.text, source, p.ts)
       IN  /\ question_queue' = r.queue
           /\ unfinished_tasks' = r.unfinished
           /\ stats' = r.stats
           /\ analyzers' = IF r.escaped THEN analyzers
                           ELSE [analyzers EXCEPT ![source].last_text = p.text]
    /\ producer' = [producer EXCEPT ![source] = <<>>]
    /\ UNCHANGED <<histVars, call, rtiVars, ctlVars, program, config_max_queue_size, running,
                   processed_questions, callbacks, threads, calls, lastDispatch, dqAfterStop>>

\* An iteration of a capture loop whose text is_dsa_question rejects: the
\* callback is not called and nothing is remembered.  The rejection is
\* recorded as the last call of is_dsa_question.
CaptureRejected(source, text) ==
    /\ CaptureStep
    /\ analyzers[source].running
    /\ text # analyzers[source].last_text
    /\ ~is_dsa_question(source, text)
    /\ call' = <<[fn |-> "is_dsa_question", args |-> [source |-> source, text |-> text],
                  result |-> <<FALSE>>]>>
    /\ UNCHANGED <<histVars, producer, godVars, rtiVars, ctlVars, program>>

\* The program explored registers no callbacks, calls start() and lets the
\* capture threads and the dispatch thread run.
CaptureNext ==
    \/ \E source \in Sources, text \in Texts \cup ShortTexts : DetectBegin(source, text)
    \/ \E source \in Sources, text \in Texts \cup ShortTexts : CaptureRejected(source, text)
    \/ \E source \in Sources : DetectPut(source)
    \/ Start
    \/ \E t \in DOMAIN threads : CheckRunning(t)
    \/ \E t \in DOMAIN threads : GetTimeout(t)
    \/ \E t \in DOMAIN threads : Dispatch(t)

CaptureInit == program = "DSAGodModeCapture" /\ Constructed

SpecCapture == CaptureInit /\ [][CaptureNext]_vars

\* C13: a capture thread never waits for the dispatch thread: whenever a call
\* of _on_text_detected has passed the full() test, its put() can complete at
\* once, however the other capture thread and the dispatch thread interleave.
C13_ProducersNeverBlock ==
    \A source \in Sources : producer[source] # <<>> => ~PutBlocks(question_queue)

\* Both capture threads are between full() and put() while the queue holds an
\* entry and a dispatch thread is waiting in get().
C13_Witness ==
    /\ \A source \in Sources : producer[source] # <<>>
    /\ question_queue # <<>>
    /\ \E t \in DOMAIN threads : threads[t] = "get"


\* --------------------------------------------------------------------------
\* Low-confidence questions in RealTimeIntelligence
\* --------------------------------------------------------------------------

LowConfidence(question) == question.confidence10 < min_confidence_threshold10

\* C14: a detected question whose confidence is below
\* min_confidence_threshold is never placed on processing_queue.
C14_LowConfidenceNotQueued ==
    \A i \in DOMAIN processing_queue : ~LowConfidence(processing_queue[i].question)


\* --------------------------------------------------------------------------
\* QuestionRouter called on its own
\* --------------------------------------------------------------------------

\* Largest twice-score per question type explored
MaxScore2 == 9

\* The values of enum QuestionType
AllQuestionTypes == {"dsa", "dbms", "oop", "hld", "lld", "system_design", "algorithm",
                     "data_structure", "theoretical", "unknown"}

\* Source labels: the two capture modules' and route_question's default
RouterSources == {"screen", "voice", "unknown"}

RouterStep == program = "QuestionRouter"

\* A call that has been given its arguments and has not returned yet
Pending(fn, args) == <<[fn |-> fn, args |-> args, result |-> <<>>]>>

Returns(value) == call' = <<[call[1] EXCEPT !.result = <<value>>]>>

Entered(fn) == call # <<>> /\ call[1].fn = fn /\ call[1].result = <<>>

\* get_solver_priority(routing_info) on any routing_info route_question can
\* build: a question type, a confidence k/88 and a source label.
RoutingInfos ==
    [question_type : AllQuestionTypes, conf88 : 0..(2 * total_patterns), source : RouterSources]

CallGetSolverPriority ==
    /\ RouterStep
    /\ Entered("get_solver_priority")
    /\ Returns(get_solver_priority(call[1].args))
    /\ UNCHANGED <<histVars, producer, godVars, rtiVars, ctlVars, program>>

\* classify_question(text): the text is given by what the function reads of
\* it, whether its stripped length is below 10 and its twice-score per type.
ClassifiedTexts ==
    [short : BOOLEAN, scores : [{"dsa", "dbms", "oop", "system_design"} -> 0..MaxScore2]]

classify_text(text) ==
    IF text.short THEN [question_type |-> "unknown", conf88 |-> 0]
    ELSE classify_scores(text.scores)

CallClassifyQuestion ==
    /\ RouterStep
    /\ Entered("classify_question")
    /\ Returns(classify_text(call[1].args))
    /\ UNCHANGED <<histVars, producer, godVars, rtiVars, ctlVars, program>>

RouterNext == CallGetSolverPriority \/ CallClassifyQuestion

RouterInit ==
    /\ program = "QuestionRouter"
    /\ GodConstructed /\ RtiConstructed /\ CtlConstructed
    /\ producer = [src \in Sources |-> <<>>]
    /\ NoHistory
    /\ call \in {Pending("get_solver_priority", ri) : ri \in RoutingInfos}
                \cup {Pending("classify_question", text) : text \in ClassifiedTexts}

SpecRouter == RouterInit /\ [][RouterNext]_vars

Called(fn) == call # <<>> /\ call[1].fn = fn /\ call[1].result # <<>>

\* The label under which the audio capture module submits text
AudioSource == "voice"

\* The priority table the claim states
ClaimedBase(qt) ==
    CASE qt = "dsa" -> 10
      [] qt = "algorithm" -> 9
      [] qt = "data_structure" -> 8
      [] qt = "system_design" -> 7
      [] qt = "dbms" -> 6
      [] qt = "oop" -> 5
      [] qt = "theoretical" -> 4
      [] qt = "unknown" -> 1

\* floor(confidence * 10) for the confidence c88 / 88
FloorTenths(c88) == CHOOSE n \in 0..10 : n * 88 <= c88 * 10 /\ c88 * 10 < (n + 1) * 88

ClaimedTypes == {"dsa", "algorithm", "data_structure", "system_design", "dbms", "oop",
                 "theoretical", "unknown"}

\* C15: get_solver_priority returns base(category) from the fixed table plus
\* floor(confidence * 10) plus 5 exactly when the source is the audio source.
C15_PriorityFormula ==
    (Called("get_solver_priority") /\ call[1].args.question_type \in ClaimedTypes)
       => call[1].result[1] = ClaimedBase(call[1].args.question_type)
                             + FloorTenths(call[1].args.conf88)
                             + (IF call[1].args.source = AudioSource THEN 5 ELSE 0)

\* The claim's example: DSA at confidence 0.9 (rounded: 79/88 and 80/88 are
\* the confidences nearest to it) from the screen yields 19.
C15_Witness ==
    /\ Called("get_solver_priority")
    /\ call[1].args.question_type = "dsa"
    /\ call[1].args.conf88 = 80
    /\ call[1].args.source = "screen"
    /\ call[1].result[1] = 19

ScoredTypes == {"dsa", "dbms", "oop", "system_design"}

\* The types of highest score
TopTypes(sc) == {qt \in ScoredTypes : \A other \in ScoredTypes : sc[other] <= sc[qt]}

\* The fixed order the claim states, over the types classify_question scores
ClaimedOrder == <<"dsa", "system_design", "dbms", "oop">>

FirstInClaimedOrder(types) ==
    ClaimedOrder[CHOOSE i \in DOMAIN ClaimedOrder :
                    /\ ClaimedOrder[i] \in types
                    /\ \A j \in 1..(i - 1) : ClaimedOrder[j] \notin types]

\* C16: when two categories have equal highest nonzero scores, the category
\* earlier in the order DSA, SYSTEM_DESIGN, DBMS, OOP is the one returned.
\* Stated for the texts that are given a category at all.
C16_TieBreakOrder ==
    (/\ Called("classify_question")
     /\ call[1].result[1].question_type # "unknown"
     /\ Cardinality(TopTypes(call[1].args.scores)) > 1)
       => call[1].result[1].question_type = FirstInClaimedOrder(TopTypes(call[1].args.scores))

\* C17: classify_question returns UNKNOWN only if no category scored above
\* zero: a text for which some category has a positive score is given a
\* category of highest score.
C17_UnknownOnlyIfAllZero ==
    (/\ Called("classify_question")
     /\ \E qt \in ScoredTypes : call[1].args.scores[qt] > 0)
       => call[1].result[1].question_type \in TopTypes(call[1].args.scores)

\* --------------------------------------------------------------------------
\* Difficulty heuristics
\* --------------------------------------------------------------------------

\* Largest number of indicators of one kind found in a text
MaxHits == 2

DifficultyStep == program = "DifficultyHeuristics"

\* The comparison both heuristics end with
pick_difficulty(easy_score, medium_score, hard_score) ==
    IF hard_score > medium_score /\ hard_score > easy_score THEN "hard"
    ELSE IF medium_score > easy_score THEN "medium"
    ELSE "easy"

\* A text as OmniscientVision._assess_difficulty reads it: the number of
\* easy, medium and hard indicators it contains, whether it mentions time or
\* space complexity, whether it mentions optimize or efficient, and whether
\* it is longer than 500 characters.
VisionTexts ==
    [easy : 0..MaxHits, medium : 0..MaxHits, hard : 0..MaxHits,
     complexity : BOOLEAN, optimize : BOOLEAN, long : BOOLEAN]

vision_scores(text) ==
    [easy   |-> text.easy,
     medium |-> text.medium + (IF text.long THEN 1 ELSE 0),
     hard   |-> text.hard + (IF text.complexity THEN 1 ELSE 0)
                          + (IF text.optimize THEN 1 ELSE 0)]

assess_difficulty(text) ==
    LET sc == vision_scores(text) IN pick_difficulty(sc.easy, sc.medium, sc.hard)

\* A text as SupernaturalListener._assess_audio_difficulty reads it: the
\* number of easy, medium and hard indicators and of complexity words.
AudioTexts ==
    [easy : 0..MaxHits, medium : 0..MaxHits, hard : 0..MaxHits, complexity_words : 0..MaxHits]

audio_scores(text) ==
    [easy |-> text.easy, medium |-> text.medium, hard |-> text.hard + text.complexity_words]

assess_audio_difficulty(text) ==
    LET sc == audio_scores(text) IN pick_difficulty(sc.easy, sc.medium, sc.hard)

CallAssessDifficulty ==
    /\ DifficultyStep
    /\ Entered("_assess_difficulty")
    /\ Returns([scores |-> vision_scores(call[1].args),
                difficulty |-> assess_difficulty(call[1].args)])
    /\ UNCHANGED <<histVars, producer, godVars, rtiVars, ctlVars, program>>

CallAssessAudioDifficulty ==
    /\ DifficultyStep
    /\ Entered("_assess_audio_difficulty")
    /\ Returns([scores |-> audio_scores(call[1].args),
                difficulty |-> assess_audio_difficulty(call[1].args)])
    /\ UNCHANGED <<histVars, producer, godVars, rtiVars, ctlVars, program>>

DifficultyNext == CallAssessDifficulty \/ CallAssessAudioDifficulty

DifficultyInit ==
    /\ program = "DifficultyHeuristics"
    /\ GodConstructed /\ RtiConstructed /\ CtlConstructed
    /\ producer = [src \in Sources |-> <<>>]
    /\ NoHistory
    /\ call \in {Pending("_assess_difficulty", text) : text \in VisionTexts}
                \cup {Pending("_assess_audio_difficulty", text) : text \in AudioTexts}

SpecDifficulty == DifficultyInit /\ [][DifficultyNext]_vars

Buckets == {"easy", "medium", "hard"}

StrictlyGreatest(sc, b) == \A other \in Buckets \ {b} : sc[other] < sc[b]

\* C18: both difficulty heuristics return the bucket with the strictly
\* greatest score, and return medium when the three scores are all zero.
C18_DifficultyBuckets ==
    (Called("_assess_difficulty") \/ Called("_assess_audio_difficulty"))
       => LET r == call[1].result[1]
          IN  /\ \A b \in Buckets : StrictlyGreatest(r.scores, b) => r.difficulty = b
              /\ (\A b \in Buckets : r.scores[b] = 0) => r.difficulty = "medium"

\* --------------------------------------------------------------------------
\* Statistics of failed solves
\* --------------------------------------------------------------------------

\* C19: for every entry the dispatch loop dequeues whose solve fails
\* (SolverEngine.solve returns an error result, or raises), stats['errors']
\* increases by exactly one.
C19_FailuresCounted ==
    [][(Hands /\ lastDispatch'[1].outcome # "ok")
          => stats'.errors = stats.errors + 1]_vars

\* --------------------------------------------------------------------------
\* Pulling solutions from the controller
\* --------------------------------------------------------------------------

\* get_latest_solution(): solution_queue.get_nowait(), or None when the
\* queue is empty.  The call is recorded with the solutions that were
\* pending when it was made.
get_latest_solution ==
    /\ CtlStep
    /\ call' = <<[fn |-> "get_latest_solution", args |-> solution_queue,
                  result |-> IF solution_queue = <<>> THEN <<"None">>
                             ELSE <<Head(solution_queue)>>]>>
    /\ solution_queue' = IF solution_queue = <<>> THEN <<>> ELSE Tail(solution_queue)
    /\ UNCHANGED <<histVars, producer, godVars, rtiVars, program, is_running, ctl_question_queue,
                   ctl_processed_questions, ctl_stats, ctl_callbacks, ctl_threads,
                   ctl_main, ctl_detections, lastSolve, ctl_dqAfterStop>>

\* The controller with a caller that pulls solutions
SpecCtlPull == CtlInit /\ [][CtlNext \/ get_latest_solution]_vars

\* C20: get_latest_solution returns None when no solution is pending and
\* otherwise the pending solution that the solver loop produced last.
C20_LatestSolution ==
    Called("get_latest_solution")
       => call[1].result[1] = IF call[1].args = <<>> THEN "None"
                              ELSE call[1].args[Len(call[1].args)]

\* --------------------------------------------------------------------------
\* Minimum length of a capture
\* --------------------------------------------------------------------------

\* The minimum length the claim states per source
ClaimedMinLength(source) == IF source = "screen" THEN 20 ELSE 10

TooShort(source, text) == text_len(text) < ClaimedMinLength(source)

\* C21: a capture shorter than its source's minimum length (20 characters
\* for the screen, 10 for the voice) is rejected by the capture loop: no
\* call of _on_text_detected is made for it and question_queue never holds
\* an entry for it.
C21_ShortCaptureRejected ==
    /\ \A source \in Sources :
          producer[source] # <<>> => ~TooShort(source, producer[source][1].text)
    /\ \A i \in DOMAIN question_queue :
          ~TooShort(question_queue[i].info.source, question_queue[i].info.text)

\* The voice loop has rejected "find heap" (9 characters, with a question
\* pattern) while the queue holds the 17-character text, which the voice
\* source accepts and the screen source does not.
C21_Witness ==
    /\ call # <<>>
    /\ call[1].fn = "is_dsa_question"
    /\ call[1].args = [source |-> "voice", text |-> "findheap"]
    /\ \E i \in DOMAIN question_queue :
          /\ question_queue[i].info.text = "findmaxheap"
          /\ question_queue[i].info.source = "voice"

\* --------------------------------------------------------------------------
\* The controller's duplicate filter over time
\* --------------------------------------------------------------------------

\* Time passes between two steps of the controller thread.
CtlTick ==
    /\ CtlStep
    /\ \E dt \in ClockSteps : ctl_now + dt <= MaxClock /\ ctl_now' = ctl_now + dt
    /\ UNCHANGED <<producer, call, rti_control, monitorVars, ctl_accepted, ctl_batch, ctl_abandoned, ctl_order, godVars, rtiVars,
                   ctlVars, program>>

\* hash(question_text.lower()) of _process_detected_question
CtlHash(question_data) == str_hash(str_lower(str_strip(question_data.text)))

\* CtlCollect with the time of the step recorded for a question that is put
\* on question_queue.
CtlCollectTimed(question_data, source) ==
    /\ CtlCollectBody(question_data, source)
    /\ ctl_accepted' =
          IF ctl_question_queue' # ctl_question_queue
          THEN [h \in DOMAIN ctl_accepted \cup {CtlHash(question_data)} |->
                  IF h = CtlHash(question_data) THEN ctl_now ELSE ctl_accepted[h]]
          ELSE ctl_accepted
    /\ UNCHANGED <<producer, call, rti_control, monitorVars, ctl_now, ctl_batch, ctl_abandoned, ctl_order>>

CtlClockNext ==
    \/ start_intelligence
    \/ stop_intelligence
    \/ StopIntelligenceReturns
    \/ CtlLoopCheck
    \/ \E q \in CtlQuestions, source \in {"screen", "voice"} : CtlCollectTimed(q, source)
    \/ CtlSleep
    \/ CtlTick
    \/ CtlSolverCheck
    \/ CtlSolverTimeout
    \/ CtlSolve

SpecCtlClock == CtlInit /\ [][CtlClockNext]_vars

\* A question that passes the length and confidence tests of
\* _process_detected_question
Eligible(question_data) ==
    /\ ~(Len(str_strip(question_data.text)) < 10)
    /\ ~(question_data.confidence10 < confidence_threshold10)

\* C22: a text that was accepted once is accepted again when it is detected
\* after the deduplication window (30 s by default) has elapsed since then.
C22_DedupExpires ==
    [][\A q \in CtlQuestions, source \in {"screen", "voice"} :
          (/\ CtlCollectTimed(q, source)
           /\ Eligible(q)
           /\ CtlHash(q) \in DOMAIN ctl_accepted
           /\ ctl_now - ctl_accepted[CtlHash(q)] >= deduplication_window)
             => ctl_question_queue' # ctl_question_queue]_vars

\* C28: a detection rejected only for its confidence does not block the
\* text: a later detection that passes the length and confidence tests, of a
\* text that has never been put on question_queue, is put on question_queue.
C28_LowConfidenceDoesNotBlock ==
    [][\A q \in CtlQuestions, source \in {"screen", "voice"} :
          (/\ CtlCollectTimed(q, source)
           /\ Eligible(q)
           /\ CtlHash(q) \notin DOMAIN ctl_accepted)
             => ctl_question_queue' # ctl_question_queue]_vars

\* --------------------------------------------------------------------------
\* The deduplication key

\* The text with every run of whitespace replaced by one space
RECURSIVE collapse_whitespace(_)
collapse_whitespace(s) ==
    IF s = <<>> THEN <<>>
    ELSE IF IsSpace(Head(s))
         THEN IF Tail(s) # <<>> /\ IsSpace(Head(Tail(s)))
              THEN collapse_whitespace(Tail(s))
              ELSE <<" ">> \o collapse_whitespace(Tail(s))
         ELSE <<Head(s)>> \o collapse_whitespace(Tail(s))

\* The key the deduplication is meant to use: case-folded text with leading
\* and trailing whitespace removed and inner whitespace collapsed
NormalizedKey(text) == collapse_whitespace(str_strip(str_lower(text)))

\* C24: two detections whose texts differ only in letter case or in the
\* amount of leading, trailing or internal whitespace get the same
\* deduplication key, so that the second one, arriving inside the window, is
\* treated as a duplicate: a call of _should_process_question answered True
\* has no text with the same normalized form accepted less than
\* deduplication_window seconds before.
C24_KeyIsNormalized ==
    lastShould # <<>> /\ lastShould[1].result
        => \A k \in DOMAIN lastAccepted :
               /\ k # lastShould[1].hash
               /\ NormalizedKey(k.hash_of) = NormalizedKey(lastShould[1].hash.hash_of)
               => ~(lastShould[1].time - lastAccepted[k] < deduplication_window)

\* --------------------------------------------------------------------------
\* Purging the deduplication cache

\* A step that takes keys out of recent_questions
Purges == DOMAIN recent_questions' # DOMAIN recent_questions /\ rti_calls' = rti_calls

\* C25: a run of _cleanup_old_questions leaves in recent_questions no key
\* whose timestamp is more than deduplication_window seconds old, and no
\* step ever takes out of recent_questions a key whose timestamp is at most
\* deduplication_window seconds old.
C25_PurgeExpiredOnly ==
    [][/\ Purges => \A h \in DOMAIN recent_questions' :
                        ~(rti_now' - recent_questions'[h] > deduplication_window)
       /\ \A h \in DOMAIN recent_questions \ DOMAIN recent_questions' :
             rti_now - recent_questions[h] > deduplication_window]_vars

\* C25 witness: _cleanup_old_questions has purged a key that was accepted
\* more than the window ago and has kept a key that is still within it.
C25_Witness ==
    /\ \E h \in DOMAIN lastAccepted \ DOMAIN recent_questions :
          rti_now - lastAccepted[h] > deduplication_window
    /\ \E h \in DOMAIN recent_questions :
          rti_now - recent_questions[h] < deduplication_window

\* --------------------------------------------------------------------------
\* Every queued entry is eventually solved

\* DSAGodMode under a scheduler that keeps running its threads
SpecGodFair == SpecGod /\ LoopsFairness

\* The entry built by the ts-th call of _on_text_detected is on question_queue
QueuedAt(ts) == \E i \in DOMAIN question_queue : question_queue[i].info.timestamp = ts

\* _process_questions has just handed that entry to _solve_question
HandedAt(ts) == lastDispatch # <<>> /\ lastDispatch[1].info.timestamp = ts

\* C26: while DSAGodMode keeps running with a live dispatch thread, every
\* entry placed on question_queue is eventually dequeued and handed to
\* _solve_question, whatever arrives after it; stated for the entry of the
\* first detection, which every later arrival follows.
C26_EveryEntrySolved ==
    QueuedAt(1) ~> (HandedAt(1) \/ ~running \/ LiveDispatchThreads = {})

\* --------------------------------------------------------------------------
\* The controller thread statement by statement: the lists it drains
\* --------------------------------------------------------------------------

MaxBatch == 2           \* longest list get_detected_questions returns

\* The lists get_detected_questions can return: it empties the source's
\* queue into a list
CtlBatches == UNION {[1..n -> CtlQuestions] : n \in 0..MaxBatch}

\* Sensitivity variant of get_detected_questions: the list in the reverse of
\* the order of the puts
get_detected_questions_reversed(queued) ==
    [i \in 1..Len(queued) |-> queued[Len(queued) + 1 - i]]

\* ScreenAnalyzer.get_detected_questions / VoiceListener.get_detected_questions
\* on a queue.Queue that holds `queued`: get_nowait until the queue is empty,
\* each result appended to the list, which is therefore in the order of the
\* puts
get_detected_questions(queued) == queued

\* _intelligence_loop: screen_analyzer.get_detected_questions(), and once the
\* for loop over that list is over, voice_listener.get_detected_questions().
\* The questions the source has queued since the last call are numbered in
\* the order in which it reported them.
CtlDrain(source) ==
    /\ CtlStep
    /\ ctl_threads.controller = "collect"
    /\ IF source = "screen"
       THEN ctl_batch = <<>>
       ELSE /\ ctl_batch # <<>>
            /\ ctl_batch[1].source = "screen"
            /\ ctl_batch[1].questions = <<>>
    /\ \E questions \in CtlBatches :
          LET queued == [i \in 1..Len(questions) |->
                           [question |-> questions[i],
                            report |-> ctl_order[source].reported + i]]
              list == get_detected_questions(queued)
          IN  /\ ctl_detections + Len(questions) <= MaxCtlDetections
              /\ ctl_batch' = <<[source |-> source,
                                 questions |-> [i \in 1..Len(list) |-> list[i].question],
                                 reports |-> [i \in 1..Len(list) |-> list[i].report],
                                 put_done |-> FALSE]>>
              /\ ctl_order' = [ctl_order EXCEPT ![source].reported = @ + Len(questions)]
    /\ UNCHANGED <<producer, call, rti_control, monitorVars, ctl_now, ctl_accepted, ctl_abandoned, godVars, rtiVars,
                   ctlVars, program>>

CtlDrainScreen == CtlDrain("screen")

CtlDrainVoice == CtlDrain("voice")

\* The rest of the list once its first question has been handled
CtlBatchRest ==
    <<[ctl_batch[1] EXCEPT !.questions = Tail(@), !.reports = Tail(@), !.put_done = FALSE]>>

\* The for loop body up to and including question_queue.put of
\* _process_detected_question.  A call that returns early (short text,
\* duplicate, low confidence) is over in this step and the loop counts the
\* detection of its source.
CtlHandlePut ==
    /\ CtlStep
    /\ ctl_threads.controller = "collect"
    /\ ctl_batch # <<>>
    /\ ctl_batch[1].questions # <<>>
    /\ ~ctl_batch[1].put_done
    /\ LET source == ctl_batch[1].source
           r == process_detected_question(Head(ctl_batch[1].questions), source)
       IN  /\ ctl_processed_questions' = r.processed
           /\ ctl_question_queue' = r.queue
           /\ IF r.stats = ctl_stats
              THEN /\ ctl_stats' = Bump(ctl_stats, IF source = "screen" THEN "screen_detections"
                                                   ELSE "voice_detections")
                   /\ ctl_batch' = CtlBatchRest
              ELSE /\ ctl_stats' = ctl_stats
                   /\ ctl_batch' = <<[ctl_batch[1] EXCEPT !.put_done = TRUE]>>
    /\ ctl_order' = IF ctl_question_queue' # ctl_question_queue
                    THEN [ctl_order EXCEPT ![ctl_batch[1].source].placed =
                                              Append(@, Head(ctl_batch[1].reports))]
                    ELSE ctl_order
    /\ ctl_detections' = ctl_detections + 1
    /\ UNCHANGED <<producer, call, rti_control, monitorVars, ctl_now, ctl_accepted, ctl_abandoned, godVars, rtiVars,
                   program, is_running, solution_queue, ctl_callbacks, ctl_threads, ctl_main,
                   lastSolve, ctl_dqAfterStop>>

\* The rest of _process_detected_question after question_queue.put:
\* stats['questions_detected'] += 1 and the question_detected callback.  An
\* exception of the callback leaves the for loop for the handler of
\* _intelligence_loop, and the list goes out of scope.
CtlHandleFinish ==
    /\ CtlStep
    /\ ctl_threads.controller = "collect"
    /\ ctl_batch # <<>>
    /\ ctl_batch[1].put_done
    /\ LET source == ctl_batch[1].source
           detected == Bump(ctl_stats, "questions_detected")
           rest == Tail(ctl_batch[1].questions)
       IN  IF Raises(ctl_callbacks.question_detected)
           THEN /\ ctl_stats' = detected
                /\ ctl_threads' = [ctl_threads EXCEPT !.controller = "check"]
                /\ ctl_batch' = <<>>
                /\ ctl_abandoned' = ctl_abandoned \cup {rest[i] : i \in DOMAIN rest}
           ELSE /\ ctl_stats' = Bump(detected, IF source = "screen" THEN "screen_detections"
                                               ELSE "voice_detections")
                /\ ctl_batch' = CtlBatchRest
                /\ UNCHANGED <<ctl_threads, ctl_abandoned>>
    /\ UNCHANGED <<producer, call, rti_control, monitorVars, ctl_now, ctl_accepted, ctl_order, godVars, rtiVars, program,
                   is_running, ctl_question_queue, solution_queue, ctl_processed_questions,
                   ctl_callbacks, ctl_main, ctl_detections, lastSolve, ctl_dqAfterStop>>

\* _intelligence_loop: both for loops are over, time.sleep(0.5)
CtlBatchSleep ==
    /\ CtlStep
    /\ ctl_threads.controller = "collect"
    /\ ctl_batch # <<>>
    /\ ctl_batch[1].source = "voice"
    /\ ctl_batch[1].questions = <<>>
    /\ ctl_batch' = <<>>
    /\ ctl_threads' = [ctl_threads EXCEPT !.controller = "check"]
    /\ UNCHANGED <<producer, call, rti_control, monitorVars, ctl_now, ctl_accepted, ctl_abandoned, ctl_order, godVars,
                   rtiVars, program, is_running, ctl_question_queue, solution_queue,
                   ctl_processed_questions, ctl_stats, ctl_callbacks, ctl_main,
                   ctl_detections, lastSolve, ctl_dqAfterStop>>

CtlBatchNext ==
    \/ CtlRegister
    \/ start_intelligence
    \/ stop_intelligence
    \/ StopIntelligenceReturns
    \/ CtlLoopCheck
    \/ CtlDrainScreen
    \/ CtlDrainVoice
    \/ CtlHandlePut
    \/ CtlHandleFinish
    \/ CtlBatchSleep
    \/ CtlSolverCheck
    \/ CtlSolverTimeout
    \/ CtlSolve

SpecCtlBatch == CtlInit /\ [][CtlBatchNext]_vars

\* C27: every question drained from a source's queue by
\* get_detected_questions is handled by _process_detected_question; an
\* exception raised while one question is handled (by the question_detected
\* callback) loses none of the other questions of the drained list.
C27_BatchFullyHandled == ctl_abandoned = {}

\* C30: stats['questions_solved'] never exceeds stats['questions_detected'],
\* under every interleaving of the intelligence thread and the solver thread.
C30_SolvedAtMostDetected == ctl_stats.questions_solved <= ctl_stats.questions_detected

\* --------------------------------------------------------------------------
\* DSAGodMode.solve_question_manually
\* --------------------------------------------------------------------------

\* solve_question_manually(question) up to the return of _solve_question:
\* route_question(question, "manual") and _solve_question(routing_info) on
\* the caller's thread.  An on_error callback that raises inside
\* _solve_question ends the call with that exception.
ManualSolve(question) ==
    /\ GodStep
    /\ call = <<>>
    /\ LET routing_info == route_question(question, "manual", calls + 1)
           s == solve_question(routing_info, SolveOutcome(question))
       IN  /\ processed_questions' = s.processed
           /\ stats' = s.stats
           /\ call' = IF s.escaped
                      THEN <<[fn |-> "solve_question_manually", args |-> question,
                              result |-> <<[kind |-> "raises", question |-> "none",
                                            context |-> "none"]>>]>>
                      ELSE Pending("solve_question_manually", question)
    /\ UNCHANGED <<histVars, producer, rtiVars, ctlVars, program, config_max_queue_size,
                   running, question_queue, unfinished_tasks, callbacks, threads, analyzers,
                   calls, lastDispatch, dqAfterStop>>

\* The rest of solve_question_manually: processed_questions[-1] if the list
\* is not empty, {} otherwise
ManualReturn ==
    /\ GodStep
    /\ Entered("solve_question_manually")
    /\ Returns(IF processed_questions # <<>>
               THEN processed_questions[Len(processed_questions)]
               ELSE [kind |-> "empty_dict", question |-> "none", context |-> "none"])
    /\ UNCHANGED <<histVars, producer, godVars, rtiVars, ctlVars, program>>

solve_question_manually == (\E question \in Texts : ManualSolve(question)) \/ ManualReturn

SpecGodManual == GodInit /\ [][GodNext \/ solve_question_manually]_vars

\* C29: solve_question_manually(q) returns the solution result produced for
\* q, or an empty dict when none was produced; it never returns the result
\* of a different question.
C29_ManualReturnsOwnResult ==
    Called("solve_question_manually") /\ call[1].result[1].kind # "raises"
        => \/ call[1].result[1].kind = "empty_dict"
           \/ /\ call[1].result[1].kind = "solution"
              /\ call[1].result[1].question = call[1].args

\* --------------------------------------------------------------------------
\* No retries
\* --------------------------------------------------------------------------

\* The routing infos of the entries on DSAGodMode.question_queue
QueuedInfos(h) == {h[i].info : i \in DOMAIN h}

\* The questions on the controller's question_queue
CtlQueued(q) == {q[i] : i \in DOMAIN q}

\* C23: an entry is dequeued and passed to the solver at most once.  The
\* entry a dispatch loop hands to the solver has left the queue in that
\* step, whether the solve succeeds or fails, and an entry enters the queue
\* only as the new entry of a detection: nothing is re-enqueued.
C23_NoRetries ==
    [][/\ Hands => lastDispatch'[1].info \notin QueuedInfos(question_queue')
       /\ \/ question_queue' = question_queue
          \/ \A info \in QueuedInfos(question_queue') \ QueuedInfos(question_queue) :
                Detects /\ info.timestamp = calls'
       /\ CtlDequeues => lastSolve'[1].question_data \notin CtlQueued(ctl_question_queue')
       /\ \/ ctl_question_queue' = ctl_question_queue
          \/ \A q \in CtlQueued(ctl_question_queue') \ CtlQueued(ctl_question_queue) :
                /\ ctl_detections' = ctl_detections + 1
                /\ str_hash(str_lower(str_strip(q.text))) \notin ctl_processed_questions]_vars

\* A solve has failed with an exception, the dispatch thread is waiting in
\* get() again and the queue still holds another entry; or the same in the
\* controller's solver loop.
C23_Witness ==
    \/ /\ lastDispatch # <<>>
       /\ lastDispatch[1].outcome = "raises"
       /\ question_queue # <<>>
       /\ \E t \in DOMAIN threads : threads[t] = "get"
    \/ /\ lastSolve # <<>>
       /\ lastSolve[1].outcome = "raises"
       /\ ctl_question_queue # <<>>
       /\ ctl_threads.solver = "get"


\* --------------------------------------------------------------------------
\* Solution records and the solver's cache
\* --------------------------------------------------------------------------

\* The texts manually_solve_question is called with
ManualQuestions == {q.text : q \in CtlQuestions}

\* UniversalSolver.solve_question stores the response dict of a successful
\* solve in solution_cache under the md5 of the text and returns that same
\* dict object on every later call with the text (nothing is ever evicted),
\* so all successful solutions of one text are one object.  The error
\* responses are fresh dicts.
CachedObject(solution, question) == ~solution.error /\ solution.question = question

\* manually_solve_question(question): _solve_question on the caller's thread
\* with source 'manual'.  solution.update(...) writes the source into the
\* dict solve_question returned, which for a cached text is the object that
\* earlier solves returned.
manually_solve_question(question) ==
    /\ CtlStep
    /\ LET question_data == [text |-> question, confidence10 |-> 10, source |-> "manual"]
           outcome  == CtlSolveOutcome(question)
           solution == ctl_solve_question(question_data, outcome)
       IN  /\ solution_queue' =
                 [i \in DOMAIN solution_queue |->
                     IF outcome = "ok" /\ CachedObject(solution_queue[i].solution, question)
                     THEN [solution_queue[i] EXCEPT !.solution = solution]
                     ELSE solution_queue[i]]
           /\ call' = <<[fn |-> "manually_solve_question", args |-> question,
                         result |-> <<solution>>]>>
    /\ UNCHANGED <<histVars, producer, godVars, rtiVars, program, is_running,
                   ctl_question_queue, ctl_processed_questions, ctl_stats, ctl_callbacks,
                   ctl_threads, ctl_main, ctl_detections, lastSolve, ctl_dqAfterStop>>

SpecCtlManual ==
    CtlInit /\ [][CtlNext \/ \E question \in ManualQuestions :
                                manually_solve_question(question)]_vars

\* C31: a solution record that the controller has placed on solution_queue
\* is not modified by any later solve, a later solve of the same text that
\* the solver serves from its cache included.
C31_QueuedSolutionsFrozen ==
    [][\A i \in DOMAIN solution_queue :
          i \in DOMAIN solution_queue' => solution_queue'[i] = solution_queue[i]]_vars


\* --------------------------------------------------------------------------
\* A suppressed duplicate leaves the dedup state alone
\* --------------------------------------------------------------------------

\* C32: _should_process_question leaves recent_questions unchanged whenever
\* it returns False: a suppressed duplicate does not refresh the stored
\* timestamp, and a key is recorded only by a call that returns True.
C32_FalseLeavesRecent ==
    [][ShouldCall /\ ~lastShould'[1].result => recent_questions' = recent_questions]_vars

\* C32 witness: a call made after the clock had advanced has just been
\* answered False, and the timestamp stored for its key is still the older
\* one of the accepted occurrence.
C32_Witness ==
    /\ lastShould # <<>>
    /\ ~lastShould[1].result
    /\ lastShould[1].hash \in DOMAIN recent_questions
    /\ recent_questions[lastShould[1].hash] < lastShould[1].time
    /\ rti_now = lastShould[1].time


\* --------------------------------------------------------------------------
\* Order of one source's questions on the queue
\* --------------------------------------------------------------------------

\* The intelligence thread of the controller on its own, from registration
\* and start_intelligence on: the solver thread takes questions off
\* question_queue and has no part in the order in which they are put on it.
CtlOrderNext ==
    \/ CtlRegister
    \/ start_intelligence
    \/ CtlLoopCheck
    \/ CtlDrainScreen
    \/ CtlDrainVoice
    \/ CtlHandlePut
    \/ CtlHandleFinish
    \/ CtlBatchSleep

SpecCtlOrder == CtlInit /\ [][CtlOrderNext]_vars

AlreadyRunning_ignored(flag) == FALSE

\* `if self.running: return` of DSAGodMode.start, `if self.is_running: return`
\* of start_intelligence and `if self.is_active: return True` of
\* activate_intelligence
AlreadyRunning(flag) == flag

\* The record of a start call: the value of the flag when it was made.  seq
\* alternates, so that two calls in a row leave different records.
StartCall(fn, flag) ==
    <<[fn |-> fn,
       args |-> [flag |-> flag, seq |-> IF call = <<>> THEN 0 ELSE 1 - call[1].args.seq],
       result |-> <<"returned">>]>>

\* DSAGodMode.start(), whatever the flag is
start ==
    /\ GodStep
    /\ Len(threads) < MaxThreads
    /\ IF AlreadyRunning(running)
       THEN UNCHANGED <<running, analyzers, threads, dqAfterStop>>
       ELSE /\ running' = TRUE
            /\ analyzers' = [src \in Sources |-> [running |-> TRUE, last_text |-> ""]]
            /\ threads' = Append(threads, "check")
            /\ dqAfterStop' = [t \in 1..(Len(threads) + 1) |-> 0]
    /\ call' = StartCall("start", running)
    /\ UNCHANGED <<histVars, producer, rtiVars, ctlVars, program, config_max_queue_size,
                   question_queue, unfinished_tasks, processed_questions, stats, callbacks,
                   calls, lastDispatch>>

\* RealTimeIntelligenceController.start_intelligence(), whatever the flag is
start_intelligence_call ==
    /\ CtlStep
    /\ ctl_main = "idle"
    /\ IF AlreadyRunning(is_running)
       THEN UNCHANGED <<is_running, ctl_threads, ctl_dqAfterStop>>
       ELSE /\ is_running' = TRUE
            /\ ctl_threads' = [controller |-> "check", solver |-> "check"]
            /\ ctl_dqAfterStop' = 0
    /\ call' = StartCall("start_intelligence", is_running)
    /\ UNCHANGED <<histVars, producer, godVars, rtiVars, program, ctl_question_queue,
                   solution_queue, ctl_processed_questions, ctl_stats, ctl_callbacks,
                   ctl_main, ctl_detections, lastSolve>>

\* RealTimeIntelligence.activate_intelligence(): True at once when active;
\* otherwise the two subsystems are activated, and when both succeed the flag
\* is set and an intelligence thread is started.
activate_intelligence ==
    /\ RtiStep
    /\ rti_control.threads < MaxThreads
    /\ IF AlreadyRunning(rti_control.is_active)
       THEN UNCHANGED rti_control
       ELSE \E activated \in BOOLEAN :
               rti_control' = IF activated
                              THEN [rti_control EXCEPT !.is_active = TRUE, !.threads = @ + 1]
                              ELSE rti_control
    /\ call' = StartCall("activate_intelligence", rti_control.is_active)
    /\ UNCHANGED <<producer, ctl_now, ctl_accepted, ctl_batch, ctl_abandoned, ctl_order,
                   monitorVars, godVars, rtiVars, ctlVars, program>>

\* RealTimeIntelligence.deactivate_intelligence(): the flag is cleared; the
\* join has a timeout and changes nothing
deactivate_intelligence ==
    /\ RtiStep
    /\ rti_control.is_active
    /\ rti_control' = [rti_control EXCEPT !.is_active = FALSE]
    /\ UNCHANGED <<producer, call, ctl_now, ctl_accepted, ctl_batch, ctl_abandoned, ctl_order,
                   monitorVars, godVars, rtiVars, ctlVars, program>>

\* _intelligence_loop: `while self.is_active` read as False, the thread ends
RtiLoopExit ==
    /\ RtiStep
    /\ ~rti_control.is_active
    /\ rti_control.threads > 0
    /\ rti_control' = [rti_control EXCEPT !.threads = @ - 1]
    /\ UNCHANGED <<producer, call, ctl_now, ctl_accepted, ctl_batch, ctl_abandoned, ctl_order,
                   monitorVars, godVars, rtiVars, ctlVars, program>>

\* The three orchestrators with their start calls made at any time
StartCallsNext ==
    \/ start
    \/ Stop
    \/ ScreenCapture
    \/ \E t \in DOMAIN threads : CheckRunning(t)
    \/ \E t \in DOMAIN threads : GetTimeout(t)
    \/ \E t \in DOMAIN threads : Dispatch(t)
    \/ start_intelligence_call
    \/ stop_intelligence
    \/ StopIntelligenceReturns
    \/ CtlLoopCheck
    \/ CtlCollectScreen
    \/ CtlCollectVoice
    \/ CtlSleep
    \/ CtlSolverCheck
    \/ CtlSolverTimeout
    \/ CtlSolve
    \/ activate_intelligence
    \/ deactivate_intelligence
    \/ RtiLoopExit
    \/ process_visual_questions
    \/ process_audio_questions
    \/ process_question_queue

SpecStartCalls == (GodInit \/ CtlInit \/ RtiInit) /\ [][StartCallsNext]_vars

\* A step that is a start call made while the flag was set
StartsWhileRunning ==
    /\ call' # call
    /\ call'[1].fn \in {"start", "start_intelligence", "activate_intelligence"}
    /\ call'[1].args.flag

\* C34: starting an already-running system is a no-op: DSAGodMode.start,
\* start_intelligence and activate_intelligence called while the running
\* flag is set create no thread and leave the flag, the queues, the
\* statistics and the dedup state as they were.
C34_StartWhileRunningIsNoOp ==
    [][StartsWhileRunning
         => UNCHANGED <<godVars, rtiVars, ctlVars, histVars, producer, program>>]_vars

\* C34 witness: start() has just returned on a running DSAGodMode whose
\* queue and statistics are not empty and whose dispatch thread is inside
\* its loop.
C34_Witness ==
    /\ call # <<>>
    /\ call[1].fn = "start"
    /\ call[1].args.flag
    /\ running
    /\ question_queue # <<>>
    /\ stats.screen_detections > 0
    /\ \E t \in DOMAIN threads : threads[t] = "get"


\* --------------------------------------------------------------------------
\* The auto_solve setting of RealTimeIntelligence
\* --------------------------------------------------------------------------

\* set_configuration({'auto_solve': value}): the value is stored in
\* self.auto_solve; no other key is given
set_configuration ==
    /\ RtiStep
    /\ \E value \in BOOLEAN :
          /\ value # rti_control.auto_solve
          /\ rti_control' = [rti_control EXCEPT !.auto_solve = value]
    /\ UNCHANGED <<producer, call, ctl_now, ctl_accepted, ctl_batch, ctl_abandoned, ctl_order,
                   monitorVars, godVars, rtiVars, ctlVars, program>>

SpecRtiConfig == RtiInit /\ [][RtiNext \/ set_configuration]_vars

\* C35: while auto_solve is False no detected question is passed to the
\* solver by the intelligence loop: _process_question_queue, the only caller
\* of the solver, counts every question it passes on in questions_processed,
\* so the count stands still while the setting is False.
C35_NoSolveWhenAutoSolveOff ==
    [][~rti_control.auto_solve => questions_processed' = questions_processed]_vars


\* --------------------------------------------------------------------------
\* OCRFallback: texts seen in several regions
\* --------------------------------------------------------------------------

OcrRegions == {"top", "bottom"}

min_text_length == 5

max_text_length == 2000

\* What _capture_region_text can return for a region: the text, its length,
\* what _is_meaningful_content says of it and what _process_ocr_text makes of
\* it (the stand-alone letter of the third text is dropped).
OcrCaptures ==
    {[text |-> "ok", length |-> 2, meaningful |-> FALSE, processed |-> ""],
     [text |-> "explain bfs", length |-> 11, meaningful |-> TRUE, processed |-> "explain bfs"],
     [text |-> "how is x sorted", length |-> 15, meaningful |-> TRUE,
      processed |-> "how is sorted"]}

\* _generate_hash(text): the first 16 hex digits of the md5 digest, one value
\* per text for the texts above
ocr_generate_hash(text) == <<"md5", text>>

\* OCRFallback._is_new_meaningful_text(text, region)
is_new_meaningful_text(capture, region) ==
    /\ ~(capture.length < min_text_length)
    /\ ~(capture.length > max_text_length)
    /\ ocr_generate_hash(capture.text) # ocr.last_hash[region]
    /\ ocr_generate_hash(capture.text) \notin ocr.seen_hashes
    /\ capture.meaningful

OcrStep == program = "OCRFallback"

\* OCRFallback.start_monitoring with regions configured
ocr_start_monitoring ==
    /\ OcrStep
    /\ ~ocr.is_running
    /\ ocr' = [ocr EXCEPT !.is_running = TRUE, !.emitted = {}]
    /\ UNCHANGED <<producer, call, ctl_now, ctl_accepted, ctl_batch, ctl_abandoned, ctl_order,
                   rti_control, analyzer, clipboard, godVars, rtiVars, ctlVars, program>>

\* OCRFallback.stop_monitoring: the flag and seen_hashes are cleared; the
\* regions keep their last_hash
ocr_stop_monitoring ==
    /\ OcrStep
    /\ ocr.is_running
    /\ ocr' = [ocr EXCEPT !.is_running = FALSE, !.seen_hashes = {}]
    /\ UNCHANGED <<producer, call, ctl_now, ctl_accepted, ctl_batch, ctl_abandoned, ctl_order,
                   rti_control, analyzer, clipboard, godVars, rtiVars, ctlVars, program>>

\* _monitor_regions, the body of `for region in self.active_regions` for one
\* region and one captured text
monitor_regions(region, capture) ==
    /\ OcrStep
    /\ ocr.is_running
    /\ Len(ocr.text_queue) < MaxDetections
    /\ IF is_new_meaningful_text(capture, region) /\ capture.processed # ""
       THEN ocr' = [ocr EXCEPT !.text_queue = Append(@, capture.processed),
                               !.last_hash[region] = ocr_generate_hash(capture.text),
                               !.emitted = @ \cup {[text |-> capture.text, region |-> region]}]
       ELSE UNCHANGED ocr
    /\ UNCHANGED <<producer, call, ctl_now, ctl_accepted, ctl_batch, ctl_abandoned, ctl_order,
                   rti_control, analyzer, clipboard, godVars, rtiVars, ctlVars, program>>

\* get_queued_text(): the consumer takes the oldest text
ocr_get_queued_text ==
    /\ OcrStep
    /\ ocr.text_queue # <<>>
    /\ ocr' = [ocr EXCEPT !.text_queue = Tail(@)]
    /\ UNCHANGED <<producer, call, ctl_now, ctl_accepted, ctl_batch, ctl_abandoned, ctl_order,
                   rti_control, analyzer, clipboard, godVars, rtiVars, ctlVars, program>>

OcrNext ==
    \/ ocr_start_monitoring
    \/ ocr_stop_monitoring
    \/ \E region \in OcrRegions, capture \in OcrCaptures : monitor_regions(region, capture)
    \/ ocr_get_queued_text

OcrInit == program = "OCRFallback" /\ Constructed

SpecOcr == OcrInit /\ [][OcrNext]_vars

\* C36: duplicate detection is global: a text emitted from one region since
\* monitoring started is not emitted again when another region shows it.
C36_NoRepeatAcrossRegions ==
    [][\A e \in ocr'.emitted \ ocr.emitted :
          ~\E earlier \in ocr.emitted : earlier.text = e.text /\ earlier.region # e.region]_vars


\* --------------------------------------------------------------------------
\* The intelligence ScreenAnalyzer: questions that stay on screen
\* --------------------------------------------------------------------------

\* Sentences that _detect_questions returns as questions
AnalyzerQuestions == {"explain how bfs works", "what is a heap"}

\* What _detect_questions can return for one screenshot: no question, one,
\* or two different ones in either order
DetectedLists ==
    {<<>>} \cup {<<q>> : q \in AnalyzerQuestions}
           \cup ({<<q1, q2>> : q1, q2 \in AnalyzerQuestions} \ {<<q, q>> : q \in AnalyzerQuestions})

\* hashlib.md5(question.encode()).hexdigest(), one value per question; the
\* empty tuple stands for None
analyzer_hash(question) == <<"md5", question>>

\* ScreenAnalyzer._is_new_question(question) for last_detected_hash = last:
\* the result, and last_detected_hash after the call
is_new_question(question, last) ==
    IF analyzer_hash(question) = last
    THEN [new |-> FALSE, last_detected_hash |-> last]
    ELSE [new |-> TRUE, last_detected_hash |-> analyzer_hash(question)]

\* `for question in detected_questions` of _analysis_loop, from the state
\* [last_detected_hash, question_queue]
RECURSIVE QueueNewQuestions(_, _)
QueueNewQuestions(detected_questions, state) ==
    IF detected_questions = <<>> THEN state
    ELSE LET question == Head(detected_questions)
             checked  == is_new_question(question, state.last_detected_hash)
         IN  QueueNewQuestions(Tail(detected_questions),
                 [last_detected_hash |-> checked.last_detected_hash,
                  question_queue |-> IF checked.new
                                     THEN Append(state.question_queue,
                                                 [text |-> question, source |-> "screen"])
                                     ELSE state.question_queue])

AnalyzerStep == program = "ScreenAnalyzer"

\* ScreenAnalyzer.start_analysis
start_analysis ==
    /\ AnalyzerStep
    /\ ~analyzer.is_running
    /\ analyzer' = [analyzer EXCEPT !.is_running = TRUE]
    /\ UNCHANGED <<producer, call, ctl_now, ctl_accepted, ctl_batch, ctl_abandoned, ctl_order,
                   rti_control, ocr, clipboard, godVars, rtiVars, ctlVars, program>>

\* ScreenAnalyzer.stop_analysis
stop_analysis ==
    /\ AnalyzerStep
    /\ analyzer.is_running
    /\ analyzer' = [analyzer EXCEPT !.is_running = FALSE]
    /\ UNCHANGED <<producer, call, ctl_now, ctl_accepted, ctl_batch, ctl_abandoned, ctl_order,
                   rti_control, ocr, clipboard, godVars, rtiVars, ctlVars, program>>

\* One pass of `while self.is_running` in _analysis_loop over a screenshot
\* in which detected_questions are found
analysis_loop(detected_questions) ==
    /\ AnalyzerStep
    /\ analyzer.is_running
    /\ analyzer.scans < MaxDetections
    /\ LET after == QueueNewQuestions(detected_questions,
                        [last_detected_hash |-> analyzer.last_detected_hash,
                         question_queue |-> analyzer.question_queue])
       IN  analyzer' = [analyzer EXCEPT !.last_detected_hash = after.last_detected_hash,
                                        !.question_queue = after.question_queue,
                                        !.previous_scan = detected_questions,
                                        !.scans = @ + 1]
    /\ UNCHANGED <<producer, call, ctl_now, ctl_accepted, ctl_batch, ctl_abandoned, ctl_order,
                   rti_control, ocr, clipboard, godVars, rtiVars, ctlVars, program>>

\* ScreenAnalyzer.get_detected_questions: the queue is emptied
analyzer_get_detected_questions ==
    /\ AnalyzerStep
    /\ analyzer.question_queue # <<>>
    /\ analyzer' = [analyzer EXCEPT !.question_queue = <<>>]
    /\ UNCHANGED <<producer, call, ctl_now, ctl_accepted, ctl_batch, ctl_abandoned, ctl_order,
                   rti_control, ocr, clipboard, godVars, rtiVars, ctlVars, program>>

AnalyzerNext ==
    \/ start_analysis
    \/ stop_analysis
    \/ \E detected_questions \in DetectedLists : analysis_loop(detected_questions)
    \/ analyzer_get_detected_questions

AnalyzerInit == program = "ScreenAnalyzer" /\ Constructed

SpecAnalyzer == AnalyzerInit /\ [][AnalyzerNext]_vars

\* The number of entries of question_queue with the text
TimesQueued(queue, text) == Len(SelectSeq(queue, LAMBDA entry : entry.text = text))

\* C37: only new questions are queued: a scan puts no entry on
\* question_queue for a question that the scan before it detected too, also
\* when the scans detect several questions.
C37_OnScreenQueuedOnce ==
    [][analyzer'.scans = analyzer.scans + 1
         => \A i \in DOMAIN analyzer.previous_scan :
               (\E j \in DOMAIN analyzer'.previous_scan :
                     analyzer'.previous_scan[j] = analyzer.previous_scan[i])
               => TimesQueued(analyzer'.question_queue, analyzer.previous_scan[i])
                    = TimesQueued(analyzer.question_queue, analyzer.previous_scan[i])]_vars


\* --------------------------------------------------------------------------
\* ClipboardMonitor: pruning seen_hashes
\* --------------------------------------------------------------------------

MaxClipboardTexts == 103   \* texts put on text_queue

\* `if len(self.seen_hashes) > 100`
PruneAbove == 100

\* `list(self.seen_hashes)[-50:]`
PruneKeep == 50

\* The clipboard texts are valid contents numbered 1, 2, ...; 0 stands for
\* the empty last_content.  _generate_hash gives each content its own hash.
clipboard_generate_hash(content) == content

\* seen_hashes is held as the sequence of its members in the order they were
\* added; the set itself is the range of the sequence.
SeenSet(seen_hashes) == {seen_hashes[i] : i \in DOMAIN seen_hashes}

\* list(self.seen_hashes): a set of str is listed in the order of its hash
\* table, which the strings' randomized hashes decide and which has nothing
\* to do with the order of insertion.  k picks the listing: the insertion
\* order begun at member k + 1 (k = 0 is the insertion order itself).
ListOfSet(seen_hashes, k) ==
    [i \in 1..Len(seen_hashes) |-> seen_hashes[((i + k - 1) % Len(seen_hashes)) + 1]]

\* set(list(self.seen_hashes)[-50:]) for the listing k
PrunedSeen(seen_hashes, k) ==
    LET listed == ListOfSet(seen_hashes, k)
        kept   == {listed[i] : i \in (Len(listed) - PruneKeep + 1)..Len(listed)}
    IN  SelectSeq(seen_hashes, LAMBDA h : h \in kept)

\* ClipboardMonitor._is_new_content(content) with listing k: the result and
\* seen_hashes after the call
is_new_content(content, k) ==
    IF content = clipboard.last_content
    THEN [new |-> FALSE, seen_hashes |-> clipboard.seen_hashes]
    ELSE IF clipboard_generate_hash(content) \in SeenSet(clipboard.seen_hashes)
    THEN [new |-> FALSE, seen_hashes |-> clipboard.seen_hashes]
    ELSE [new |-> TRUE,
          seen_hashes |-> IF Len(clipboard.seen_hashes) > PruneAbove
                          THEN PrunedSeen(clipboard.seen_hashes, k)
                          ELSE clipboard.seen_hashes]

ClipboardStep == program = "ClipboardMonitor"

\* ClipboardMonitor.start_monitoring
clipboard_start_monitoring ==
    /\ ClipboardStep
    /\ ~clipboard.is_running
    /\ clipboard' = [clipboard EXCEPT !.is_running = TRUE]
    /\ UNCHANGED <<producer, call, ctl_now, ctl_accepted, ctl_batch, ctl_abandoned, ctl_order,
                   rti_control, ocr, analyzer, godVars, rtiVars, ctlVars, program>>

\* ClipboardMonitor.stop_monitoring: seen_hashes and last_content are cleared
clipboard_stop_monitoring ==
    /\ ClipboardStep
    /\ clipboard.is_running
    /\ clipboard' = [clipboard EXCEPT !.is_running = FALSE, !.seen_hashes = <<>>,
                                      !.last_content = 0]
    /\ UNCHANGED <<producer, call, ctl_now, ctl_accepted, ctl_batch, ctl_abandoned, ctl_order,
                   rti_control, ocr, analyzer, godVars, rtiVars, ctlVars, program>>

\* The contents tried: a text never copied before, the text copied last,
\* and the oldest and the newest text whose hash is in seen_hashes
ClipboardContents ==
    {Len(clipboard.text_queue) + 1}
        \cup ({clipboard.last_content} \ {0})
        \cup (IF clipboard.seen_hashes = <<>> THEN {}
              ELSE {clipboard.seen_hashes[1],
                    clipboard.seen_hashes[Len(clipboard.seen_hashes)]})

\* One pass of `while self.is_running` in _monitor_clipboard with a valid
\* current_content
monitor_clipboard(current_content, k) ==
    /\ ClipboardStep
    /\ clipboard.is_running
    /\ Len(clipboard.text_queue) < MaxClipboardTexts
    /\ LET checked == is_new_content(current_content, k)
       IN  clipboard' =
              IF checked.new
              THEN [clipboard EXCEPT
                      !.text_queue = Append(@, current_content),
                      !.last_content = current_content,
                      !.seen_hashes = Append(checked.seen_hashes,
                                             clipboard_generate_hash(current_content))]
              ELSE [clipboard EXCEPT !.seen_hashes = checked.seen_hashes]
    /\ UNCHANGED <<producer, call, ctl_now, ctl_accepted, ctl_batch, ctl_abandoned, ctl_order,
                   rti_control, ocr, analyzer, godVars, rtiVars, ctlVars, program>>

ClipboardNext ==
    \/ clipboard_start_monitoring
    \/ clipboard_stop_monitoring
    \/ \E current_content \in ClipboardContents,
          k \in IF Len(clipboard.seen_hashes) > PruneAbove
                THEN 0..(Len(clipboard.seen_hashes) - 1) ELSE {0} :
          monitor_clipboard(current_content, k)

ClipboardInit == program = "ClipboardMonitor" /\ Constructed

SpecClipboard == ClipboardInit /\ [][ClipboardNext]_vars

\* C38: when seen_hashes has grown beyond 100 entries, the pruning keeps the
\* 50 hashes added most recently, so each of them is still in seen_hashes
\* (and its content still a duplicate) after the step that prunes.
C38_PruneKeepsMostRecent ==
    [][(Len(clipboard.seen_hashes) > PruneAbove
          /\ clipboard'.is_running
          /\ clipboard'.seen_hashes # clipboard.seen_hashes)
         => \A i \in (Len(clipboard.seen_hashes) - PruneKeep + 1)..Len(clipboard.seen_hashes) :
               clipboard.seen_hashes[i] \in SeenSet(clipboard'.seen_hashes)]_vars

=============================================================================
